---- MODULE Spec2Model ----
(***************************************************************************)
(* Call-graph construction by points-to propagation (CallGraphPass) and    *)
(* its iterative driver (IterativeModulePass::run).                        *)
(*                                                                         *)
(* The analysed program is the input: Init draws a module list from        *)
(* Programs (and an order of the functions inside each module), the        *)
(* actions are the driver's steps and one action per instruction handler   *)
(* of runOnFunction.  The node factory, the points-to set, the struct      *)
(* layout oracle and populateNodeFactory are not part of the sources at    *)
(* hand; they are modelled from their documented contract.                 *)
(*                                                                         *)
(* Modelling assumption: the hash table behind funcPtsGraph does not       *)
(* rehash while a handler holds an iterator into it.                       *)
(***************************************************************************)
EXTENDS Integers, Sequences, FiniteSets, TLC

VARIABLES
    ptsAtEntry,       \* history: funcPtsGraph as the current call of doModulePass found it
    IR,               \* the functions the input files define, by name; never written
    modules,          \* ModuleList: the loaded modules, each a sequence of functions
    llvmMajor,        \* LLVM_VERSION_MAJOR of the build
    phase,            \* position in IterativeModulePass::run
    mi, fi, ii,       \* module / function / instruction cursor
    Iteration,        \* IterativeModulePass::Iteration
    again,            \* run(): local `again`
    changed,          \* run(): local `changed`
    Changed,          \* doModulePass(): local `Changed`
    fnChanged,        \* runOnFunction(): local `Changed`
    sweeps,           \* number of fixpoint sweeps begun so far
    runCount,         \* per function: how often runOnFunction was applied
    funcPtsGraph,     \* PtsGraph: node index -> points-to set (DOMAIN = present keys)
    Callees,          \* Ctx->Callees  (DOMAIN = present keys)
    Callers,          \* Ctx->Callers  (DOMAIN = present keys)
    calleeByType,     \* CallGraphPass::calleeByType (DOMAIN = present keys)
    AddressTakenFuncs,
    reachable,
    unvisited,
    unresolvedFPts,
    typeShortcuts,    \* struct name -> shortcut object (DOMAIN = present keys)
    typeShortcutsObj,
    retStructs, argStructs, globalStructs,
    fnValueNodes,     \* functions for which createValueNode has been called
    objSize,          \* node factory: size of each opaque-born object (by base)
    freshCount,       \* node factory: opaque heap objects created during the run
    lastCall,         \* record of the last handleCall: call site, callee, result
    T1, T2, sameCtx,  \* inputs of isCompatibleType (type-compatibility specification)
    compat,           \* its results: <<compat(T1,T2), compat(T2,T1), compat(T1,T1)>>
    InputFilenames,   \* main: the input files, each parsing into a module or failing
    fileIdx,          \* main: index i of the loading loop
    exitCode,         \* main: -1 while running, then the value main returns
    OS                \* dumpCallees: the records written to the output stream

vars == << modules, llvmMajor, phase, mi, fi, ii, Iteration, again, changed,
           Changed, fnChanged, sweeps, runCount, funcPtsGraph, Callees, Callers,
           calleeByType, AddressTakenFuncs, reachable, unvisited, unresolvedFPts,
           typeShortcuts, typeShortcutsObj, retStructs, argStructs, globalStructs,
           fnValueNodes, objSize, freshCount, lastCall, T1, T2, sameCtx, compat, InputFilenames,
                   fileIdx, exitCode, OS, IR, ptsAtEntry >>

(***************************************************************************)
(* Bounds of the model.                                                    *)
(***************************************************************************)
\* Iteration is an unsigned long that only ever is compared with 2; it is
\* saturated here so that a driver that never stops has finitely many states.
IterationCap == 4
\* Opaque heap objects the node factory may create during one run.
MaxFresh == 4
\* Nesting depth of the types isCompatibleType is applied to.
MaxTypeDepth == 1

(***************************************************************************)
(* LLVM types.                                                             *)
(***************************************************************************)
Ty(k) == [k |-> k, w |-> 0, as |-> 0, el |-> <<>>, lit |-> FALSE,
          name |-> "", va |-> FALSE]

VoidTy == Ty("void")
IntTy(w) == [Ty("int") EXCEPT !.w = w]
\* el holds the contained types: <<element>> for pointers and arrays, the
\* fields for a literal struct, <<return, params...>> for a function type.
PtrTy(t, as) == [Ty("ptr") EXCEPT !.el = <<t>>, !.as = as]
ArrayTy(t) == [Ty("array") EXCEPT !.el = <<t>>]
LitStructTy(els) == [Ty("struct") EXCEPT !.el = els, !.lit = TRUE]
NamedStructTy(n) == [Ty("struct") EXCEPT !.name = n]
FnTy(ret, params, va) == [Ty("fn") EXCEPT !.el = <<ret>> \o params, !.va = va]
\* floating-point types are told apart by their TypeID
FloatTy == [Ty("fp") EXCEPT !.name = "float"]
DoubleTy == [Ty("fp") EXCEPT !.name = "double"]
\* TypeIDs above FP128TyID that no branch handles (label, metadata, vector ...)
LabelTy == [Ty("other") EXCEPT !.name = "label"]

I1 == IntTy(1)
I8 == IntTy(8)
I32 == IntTy(32)
PtrI8 == PtrTy(I8, 0)

\* T1 == T2 in the code compares Type pointers.  Types are uniqued per
\* LLVMContext, and main() loads every module into its own context: two types
\* are the same pointer iff they live in one context and are the same type.
SameType(A, B, same) == same /\ A = B

RECURSIVE isCompatibleType(_, _, _, _)
RECURSIVE AllCompatible(_, _, _, _, _)

\* the loops `for i < n: if (!isCompatibleType(a[i], b[i])) return false`
AllCompatible(as, bs, i, same, major) ==
    IF i > Len(as) THEN TRUE
    ELSE IF ~isCompatibleType(as[i], bs[i], same, major) THEN FALSE
    ELSE AllCompatible(as, bs, i + 1, same, major)

isCompatibleType(A, B, same, major) ==
    IF SameType(A, B, same) THEN TRUE
    ELSE IF A.k = "void" THEN B.k = "void"
    ELSE IF A.k = "int" THEN
        IF B.k = "ptr" /\ A.w = B.as THEN TRUE
        ELSE B.k = "int"
    ELSE IF A.k = "ptr" THEN
        IF B.k # "ptr" THEN FALSE
        ELSE IF major > 12 THEN TRUE
        ELSE IF A.el[1] = I8 \/ B.el[1] = I8 THEN TRUE
        ELSE isCompatibleType(A.el[1], B.el[1], same, major)
    ELSE IF A.k = "array" THEN
        IF B.k # "array" THEN FALSE
        ELSE isCompatibleType(A.el[1], B.el[1], same, major)
    ELSE IF A.k = "struct" THEN
        IF B.k # "struct" THEN FALSE
        ELSE IF A.lit # B.lit THEN FALSE
        ELSE IF A.lit THEN
            IF Len(A.el) # Len(B.el) THEN FALSE
            ELSE AllCompatible(A.el, B.el, 1, same, major)
        ELSE A.name = B.name
    ELSE IF A.k = "fn" THEN
        IF B.k # "fn" THEN FALSE
        ELSE IF ~isCompatibleType(A.el[1], B.el[1], same, major) THEN FALSE
        ELSE IF A.va THEN B.va
        ELSE IF Len(A.el) # Len(B.el) THEN FALSE
        ELSE AllCompatible(A.el, B.el, 2, same, major)
    ELSE \* floating point, and the "Unhandled Types" branch: same TypeID
        A.k = B.k /\ A.name = B.name

(***************************************************************************)
(* The analysed programs.  A function is a record; F.getName() is kept as  *)
(* a sequence of characters so that the name tests of the code (equals     *)
(* "main", startswith "SyS_", find "alloc") are computed, not assumed.     *)
(***************************************************************************)
N_main == <<"m", "a", "i", "n">>
N_SyS_read == <<"S", "y", "S", "_", "r">>
N_my_alloc == <<"m", "y", "_", "a", "l", "l", "o", "c">>
N_malloc == <<"m", "a", "l", "l", "o", "c">>
N_alloc_pair == <<"a", "l", "l", "o", "c", "_", "p">>
N_factorial == <<"f", "a", "c", "t">>

\* StringRef::startswith
startswith(name, prefix) ==
    /\ Len(name) >= Len(prefix)
    /\ \A i \in 1..Len(prefix) : name[i] = prefix[i]

\* StringRef::find(sub) != npos
contains(name, sub) ==
    \E s \in 0..(Len(name) - Len(sub)) :
        \A i \in 1..Len(sub) : name[s + i] = sub[i]

StructS == NamedStructTy("S")
StructT == NamedStructTy("T")
FnIntVoid == FnTy(I32, <<>>, FALSE)
FpTy == PtrTy(FnIntVoid, 0)
PtrS == PtrTy(StructS, 0)
PtrT == PtrTy(StructT, 0)

\* An instruction.  id: the instruction as a value (and as a call site);
\* ty: its type; ops: its operands (for a call: the actual arguments);
\* callee: the called function of a direct call; co: the called operand of
\* an indirect call; asm: inline asm; elty/off/field: a GEP's source element
\* type, its constant byte offset, and the field number offsetToFieldNum
\* yields for it.
Inst(op, id, ty, ops) ==
    [op |-> op, id |-> id, ty |-> ty, ops |-> ops, callee |-> "", co |-> "",
     asm |-> FALSE, elty |-> VoidTy, off |-> 0, field |-> 0]

Ret(v) == Inst("ret", "", VoidTy, <<v>>)
RetVoid == Inst("ret", "", VoidTy, <<>>)
Call(id, ty, f, args) == [Inst("call", id, ty, args) EXCEPT !.callee = f]
Invoke(id, ty, f, args) == [Inst("invoke", id, ty, args) EXCEPT !.callee = f]
ICall(id, ty, co, args) == [Inst("call", id, ty, args) EXCEPT !.co = co]
AsmCall(id) == [Inst("call", id, VoidTy, <<>>) EXCEPT !.asm = TRUE]
Alloca(id, ty) == Inst("alloca", id, ty, <<>>)
Load(id, ty, p) == Inst("load", id, ty, <<p>>)
Store(v, p) == Inst("store", "", VoidTy, <<v, p>>)
GEP(id, ty, p, elty, off, field) ==
    [Inst("gep", id, ty, <<p>>) EXCEPT !.elty = elty, !.off = off, !.field = field]
BitCast(id, ty, v) == Inst("bitcast", id, ty, <<v>>)
PHI(id, ty, vs) == Inst("phi", id, ty, vs)
Select(id, ty, c, a, b) == Inst("select", id, ty, <<c, a, b>>)
\* br, switch, unreachable, binary operators, sext, zext, trunc, icmp, fcmp
Skipped(op, id) == Inst(op, id, I32, <<>>)
\* an opcode the switch has no case for
Unhandled(op, id) == Inst(op, id, VoidTy, <<>>)

SkippedOps == {"br", "switch", "unreachable", "binop", "sext", "zext", "trunc",
               "icmp", "fcmp"}
HandledOps == {"ret", "call", "invoke", "alloca", "load", "store", "gep",
               "bitcast", "phi", "select"}

\* A function.  guid: its symbol; ext: external linkage; body = <<>>: a
\* declaration.
Func(name, guid, ext, intr, va, retTy, args, argTys, body) ==
    [name |-> name, guid |-> guid, ext |-> ext, intrinsic |-> intr, va |-> va,
     retTy |-> retTy, args |-> args, argTys |-> argTys, body |-> body]

\* The functions of the programs the model runs on; IR holds this table.
Fn ==
    [ t1 |-> Func(<<"t", "1">>, "t1", TRUE, FALSE, FALSE, I32, <<>>, <<>>,
                  << Ret("k0") >>),
      t2 |-> Func(<<"t", "2">>, "t2", TRUE, FALSE, FALSE, I32, <<>>, <<>>,
                  << Ret("k0") >>),
      \* int indirect_call(int (*fp)()) { return fp(); }
      icall |-> Func(<<"i", "c">>, "icall", TRUE, FALSE, FALSE, I32,
                  <<"icall.fp">>, <<FpTy>>,
                  << ICall("icall.r", I32, "icall.fp", <<>>),
                     Ret("icall.r") >>),
      \* int main() { fp = c ? t1 : t2; return indirect_call(fp); }
      main1 |-> Func(N_main, "main", TRUE, FALSE, FALSE, I32, <<>>, <<>>,
                  << Skipped("icmp", "main1.c"),
                     Select("main1.sel", FpTy, "main1.c", "t1", "t2"),
                     Call("main1.r", I32, "icall", <<"main1.sel">>),
                     Ret("main1.r") >>),
      \* a main without calls to defined functions
      main2 |-> Func(N_main, "main", TRUE, FALSE, FALSE, I32, <<>>, <<>>,
                  << Alloca("main2.a", PtrTy(I32, 0)),
                     AsmCall("main2.asm"),
                     Call("main2.d", VoidTy, "dbg", <<>>),
                     Call("main2.e", I32, "extf", <<>>),
                     Unhandled("fence", "main2.f"),
                     Skipped("br", "main2.b"),
                     [ICall("main2.i", I32, "null", <<>>) EXCEPT !.op = "invoke"],
                     Ret("k0") >>),
      \* never called
      dead |-> Func(<<"d">>, "dead", TRUE, FALSE, FALSE, VoidTy, <<>>, <<>>,
                  << Call("dead.c", VoidTy, "helper", <<>>),
                     ICall("dead.i", I32, "null", <<>>),
                     RetVoid >>),
      helper |-> Func(<<"h">>, "helper", TRUE, FALSE, FALSE, VoidTy, <<>>, <<>>,
                  << RetVoid >>),
      dbg |-> Func(<<"l", "l", "v", "m", ".", "d">>, "llvm.d", TRUE, TRUE, FALSE,
                  VoidTy, <<>>, <<>>, <<>>),
      extf |-> Func(<<"e">>, "extf", TRUE, FALSE, FALSE, I32, <<>>, <<>>, <<>>),
      \* int var(int (*f)(), ...)
      var |-> Func(<<"v">>, "var", FALSE, FALSE, TRUE, I32, <<"var.f">>, <<FpTy>>,
                  << Ret("k0") >>),
      \* a system-call entry: stores, loads, casts, phi, invoke
      main3 |-> Func(N_SyS_read, "SyS_r", TRUE, FALSE, FALSE, I32, <<>>, <<>>,
                  << Alloca("main3.a", PtrTy(FpTy, 0)),
                     Store("t1", "main3.a"),
                     Load("main3.l", FpTy, "main3.a"),
                     BitCast("main3.bc", FpTy, "main3.l"),
                     PHI("main3.phi", FpTy, <<"main3.bc", "t2">>),
                     [ICall("main3.r", I32, "main3.phi", <<>>) EXCEPT !.op = "invoke"],
                     Call("main3.v", I32, "var", <<"t1", "t2">>),
                     Call("main3.m", I32, "t1", <<"k0">>),
                     Store("t2", "main3.a"),
                     Store("k0", "main3.a"),
                     Store("t1", "null"),
                     Load("main3.n", PtrI8, "null"),
                     Ret("main3.r") >>),
      malloc |-> Func(N_malloc, "malloc", TRUE, FALSE, FALSE, PtrI8, <<"malloc.n">>,
                  <<I32>>, <<>>),
      \* void *my_alloc() { return malloc(k); }
      my_alloc |-> Func(N_my_alloc, "my_alloc", FALSE, FALSE, FALSE, PtrI8, <<>>,
                  <<>>,
                  << Call("my_alloc.p", PtrI8, "malloc", <<"k0">>),
                     Ret("my_alloc.p") >>),
      \* GEPs into a global struct S gs (2 fields) and into a heap object
      main4 |-> Func(N_main, "main", TRUE, FALSE, FALSE, I32, <<>>, <<>>,
                  << Call("main4.h", PtrI8, "my_alloc", <<>>),
                     BitCast("main4.hb", PtrT, "main4.h"),
                     GEP("main4.hg", PtrTy(FpTy, 0), "main4.hb", StructT, 16, 2),
                     GEP("main4.g", PtrTy(FpTy, 0), "gs", StructS, 8, 1),
                     Store("t1", "main4.g"),
                     Load("main4.l", FpTy, "main4.g"),
                     ICall("main4.r", I32, "main4.l", <<>>),
                     GEP("main4.ng", PtrI8, "gs", StructS, -8, 0),
                     GEP("main4.og", PtrI8, "gs", StructT, 8, 1),
                     GEP("main4.cl", PtrI8, "main4.g", StructS, 8, 1),
                     GEP("main4.nl", PtrI8, "null", I8, 1, 1),
                     GEP("main4.nn", PtrI8, "null", StructS, -8, 0),
                     Ret("main4.r") >>),
      \* struct T *mk() { return (struct T *)malloc(k); }
      mk |-> Func(<<"m", "k">>, "mk", TRUE, FALSE, FALSE, PtrT, <<>>, <<>>,
                  << Call("mk.p", PtrI8, "malloc", <<"k0">>),
                     BitCast("mk.b", PtrT, "mk.p"),
                     Ret("mk.b") >>),
      \* int use(struct T *a) { return 0; }
      use |-> Func(<<"u">>, "use", TRUE, FALSE, FALSE, I32, <<"use.a">>, <<PtrT>>,
                  << Ret("k0") >>),
      main5 |-> Func(N_main, "main", TRUE, FALSE, FALSE, I32, <<>>, <<>>,
                  << Call("main5.x", PtrT, "mk", <<>>),
                     Alloca("main5.s", PtrTy(PtrT, 0)),
                     Store("main5.x", "main5.s"),
                     Load("main5.y", PtrT, "main5.s"),
                     Call("main5.u", I32, "use", <<"main5.y">>),
                     Ret("main5.u") >>),
      \* module A: main calls foo, which module A only declares
      mainA |-> Func(N_main, "main", TRUE, FALSE, FALSE, I32, <<>>, <<>>,
                  << Call("mainA.p", FpTy, "fooDecl", <<>>),
                     ICall("mainA.r", I32, "mainA.p", <<>>),
                     Call("mainA.q", FpTy, "fooDecl", <<"k0">>),
                     Ret("mainA.r") >>),
      fooDecl |-> Func(<<"f">>, "foo", TRUE, FALSE, FALSE, FpTy, <<>>, <<>>, <<>>),
      \* module B: int (*foo())() { return t1; }
      fooDef |-> Func(<<"f">>, "foo", TRUE, FALSE, FALSE, FpTy, <<>>, <<>>,
                  << BitCast("foo.b", FpTy, "t1"), Ret("foo.b") >>),
      \* void *alloc_p() { p = malloc(k); q = (struct T *)malloc(k); q->f0;
      \*                   return c ? p : q; }
      alloc_pair |-> Func(N_alloc_pair, "alloc_p", TRUE, FALSE, FALSE, PtrI8, <<>>,
                  <<>>,
                  << Call("ap.p", PtrI8, "malloc", <<"k0">>),
                     Call("ap.q", PtrI8, "malloc", <<"k0">>),
                     BitCast("ap.qb", PtrT, "ap.q"),
                     GEP("ap.g", PtrTy(FpTy, 0), "ap.qb", StructT, 0, 0),
                     PHI("ap.r", PtrI8, <<"ap.p", "ap.q">>),
                     Ret("ap.r") >>),
      main7 |-> Func(N_main, "main", TRUE, FALSE, FALSE, I32, <<>>, <<>>,
                  << Call("main7.h", PtrI8, "alloc_pair", <<>>),
                     Ret("k0") >>),
      \* tests/7.c: int factorial(int n) { return n <= 1 ? 1 : n * factorial(n - 1); }
      factorial |-> Func(N_factorial, "factorial", TRUE, FALSE, FALSE, I32,
                  <<"fact.n">>, <<I32>>,
                  << Skipped("icmp", "fact.c"),
                     Skipped("br", "fact.b"),
                     Skipped("binop", "fact.s"),
                     Call("fact.r", I32, "factorial", <<"fact.s">>),
                     Skipped("binop", "fact.m"),
                     Ret("fact.m") >>),
      \* tests/7.c: int main() { return factorial(5); }
      main8 |-> Func(N_main, "main", TRUE, FALSE, FALSE, I32, <<>>, <<>>,
                  << Call("main8.r", I32, "factorial", <<"k0">>),
                     Ret("main8.r") >>),
      \* void *vp(...) { return 0; }
      vp |-> Func(<<"v", "p">>, "vp", TRUE, FALSE, TRUE, PtrI8, <<>>, <<>>,
                  << Ret("null") >>),
      \* int main() { void *b = (void *)vp; int (*u)() = 0; return u(); }
      main9 |-> Func(N_main, "main", TRUE, FALSE, FALSE, I32, <<>>, <<>>,
                  << BitCast("main9.b", PtrI8, "vp"),
                     ICall("main9.r", I32, "null", <<>>),
                     Ret("main9.r") >>),
      \* int nl(void) { char *v = *(char **)0; return 0; }
      nl |-> Func(<<"n", "l">>, "nl", TRUE, FALSE, FALSE, I32, <<>>, <<>>,
                  << Load("nl.v", PtrI8, "null"),
                     Ret("k0") >>),
      \* int main() { return nl(); }
      main10 |-> Func(N_main, "main", TRUE, FALSE, FALSE, I32, <<>>, <<>>,
                  << Call("main10.r", I32, "nl", <<>>),
                     Ret("main10.r") >>),
      \* int main() { struct T *x = mk(); x->a; struct T *q = (struct T *)&x->c;
      \*              &q->c; return 0; }
      main11 |-> Func(N_main, "main", TRUE, FALSE, FALSE, I32, <<>>, <<>>,
                  << Call("main11.x", PtrT, "mk", <<>>),
                     GEP("main11.a", PtrTy(FpTy, 0), "main11.x", StructT, 0, 0),
                     GEP("main11.c", PtrTy(FpTy, 0), "main11.x", StructT, 16, 2),
                     BitCast("main11.q", PtrT, "main11.c"),
                     GEP("main11.qc", PtrTy(FpTy, 0), "main11.q", StructT, 16, 2),
                     Ret("k0") >>)
    ]

Functions == DOMAIN IR

\* The module lists the analysis is run on (one per run).
Programs ==
    << << <<"t1", "t2", "icall", "main1">> >>,
       << <<"main2", "dead", "helper", "dbg", "extf">> >>,
       << <<"t1", "t2", "var", "main3">> >>,
       << <<"t1", "malloc", "my_alloc", "main4">> >>,
       << <<"malloc", "mk", "use", "main5">> >>,
       << <<"mainA", "fooDecl">>, <<"fooDef", "t1">> >>,
       << <<"malloc", "alloc_pair", "main7">> >>,
       << <<"factorial", "main8">> >>,
       << <<"vp", "main9">> >>,
       << <<"nl", "main10">> >>,
       << <<"malloc", "mk", "main11">> >> >>

\* hasAddressTaken(): some use of F is not the callee operand of a call.
\* The users of a function are instructions of its own module.
Body(f) == IR[f].body
hasBody(f) == Len(IR[f].body) > 0
hasAddressTaken(f, module) ==
    \E g \in {module[j] : j \in 1..Len(module)} :
        \E i \in 1..Len(Body(g)) :
            \E k \in 1..Len(Body(g)[i].ops) : Body(g)[i].ops[k] = f

\* every instruction of the universe, and the types of its values
AllInsts == UNION {{Body(f)[i] : i \in 1..Len(Body(f))} : f \in Functions}
FnPtrTy(f) == PtrTy(FnTy(IR[f].retTy, IR[f].argTys, IR[f].va), 0)
ValTy(v) ==
    IF v \in Functions THEN FnPtrTy(v)
    ELSE IF v = "k0" THEN I32
    ELSE IF v = "null" THEN PtrI8
    ELSE IF v = "gs" THEN PtrS
    ELSE IF \E f \in Functions : \E k \in 1..Len(IR[f].args) : IR[f].args[k] = v
         THEN LET f == CHOOSE g \in Functions :
                           \E k \in 1..Len(IR[g].args) : IR[g].args[k] = v
                  k == CHOOSE j \in 1..Len(IR[f].args) : IR[f].args[j] = v
              IN IR[f].argTys[k]
    ELSE (CHOOSE I \in AllInsts : I.id = v).ty

(***************************************************************************)
(* Struct layout oracle (StructAnalyzer): the expanded size of each record *)
(* type.  StructInfo objects are identified with the record's name.        *)
(***************************************************************************)
ExpandedSize == [S |-> 2, T |-> 3]
getStructInfo(ty) == ty.name

(***************************************************************************)
(* Node factory (AndersNodeFactory), from its contract.  Indices: the two  *)
(* special nodes, then the value nodes, the value nodes of functions, the  *)
(* object nodes of the sized allocation sites (dense, one per field), the  *)
(* return and vararg nodes, and last the objects that are born opaque or   *)
(* are created during the run, each with room to grow to MaxRecord fields. *)
(***************************************************************************)
Universal == 0
NullObject == 1
\* NodeIndex is an unsigned integer and InvalidIndex its largest value.  The
\* model keeps the arithmetic modulo a power of two, with a width that is
\* scaled down to what the model checker's integers hold.
IndexModulus == 65536
InvalidIndex == IndexModulus - 1

PosIn(seq, x) == CHOOSE i \in 1..Len(seq) : seq[i] = x
InSeq(seq, x) == \E i \in 1..Len(seq) : seq[i] = x

ValueList ==
    << "null", "k0", "gs", "icall.fp", "var.f", "malloc.n", "use.a",
       "main1.sel", "main1.r", "icall.r", "main2.a", "main2.e",
       "main3.a", "main3.l", "main3.bc", "main3.phi", "main3.r", "main3.v",
       "main3.m", "main3.n", "my_alloc.p", "main4.h", "main4.hb", "main4.hg",
       "main4.g", "main4.l", "main4.r", "main4.ng", "main4.og", "main4.cl",
       "main4.nl", "mk.p", "mk.b", "main5.x", "main5.s", "main5.y", "main5.u",
       "mainA.p", "mainA.r", "foo.b", "main2.i", "dead.i", "main4.nn", "mainA.q",
       "ap.p", "ap.q", "ap.qb", "ap.g", "ap.r", "main7.h",
       "fact.n", "fact.s", "fact.r", "fact.m", "main8.r", "main9.b", "main9.r",
       "nl.v", "main10.r",
       "main11.x", "main11.a", "main11.c", "main11.q", "main11.qc" >>

FnList ==
    << "t1", "t2", "icall", "main1", "main2", "dead", "helper", "dbg", "extf",
       "var", "main3", "malloc", "my_alloc", "main4", "mk", "use", "main5",
       "mainA", "fooDecl", "fooDef", "alloc_pair", "main7", "factorial", "main8",
       "vp", "main9", "nl", "main10", "main11" >>

\* allocation sites with a known layout: functions, globals, allocas
SizedList == FnList \o << "gs", "main2.a", "main3.a", "main5.s" >>
SizedSize(v) == IF v = "gs" THEN ExpandedSize.S ELSE 1

\* heap allocation sites: opaque until a GEP reveals a record type
OpaqueList == << "my_alloc.p", "mk.p", "ap.p", "ap.q" >>
StructList == << "S", "T" >>
MaxRecord == 3

FirstValue == 2
FirstFnValue == FirstValue + Len(ValueList)
FirstSized == FirstFnValue + Len(FnList)

RECURSIVE SizedBase(_)
SizedBase(i) == IF i = 1 THEN FirstSized
                ELSE SizedBase(i - 1) + SizedSize(SizedList[i - 1])

FirstReturn == SizedBase(Len(SizedList)) + SizedSize(SizedList[Len(SizedList)])
FirstVararg == FirstReturn + Len(FnList)
FirstOpaque == FirstVararg + Len(FnList)
FirstShortcut == FirstOpaque + MaxRecord * Len(OpaqueList)
FirstFresh == FirstShortcut + MaxRecord * Len(StructList)

\* getValueNodeFor: the value node of a function exists once createValueNode
\* was called for it
getValueNodeFor(v, created) ==
    IF v \in Functions
        THEN IF v \in created THEN FirstFnValue + PosIn(FnList, v) - 1
             ELSE InvalidIndex
    ELSE IF InSeq(ValueList, v) THEN FirstValue + PosIn(ValueList, v) - 1
    ELSE InvalidIndex

getObjectNodeFor(v) ==
    IF InSeq(SizedList, v) THEN SizedBase(PosIn(SizedList, v))
    ELSE IF InSeq(OpaqueList, v) THEN FirstOpaque + MaxRecord * (PosIn(OpaqueList, v) - 1)
    ELSE InvalidIndex

getReturnNodeFor(f) == FirstReturn + PosIn(FnList, f) - 1
getVarargNodeFor(f) ==
    IF IR[f].va THEN FirstVararg + PosIn(FnList, f) - 1 ELSE InvalidIndex

ShortcutBase(st) == FirstShortcut + MaxRecord * (PosIn(StructList, st) - 1)
FreshBase(k) == FirstFresh + MaxRecord * k

getNullObjectNode == NullObject
isSpecialNode(idx) == idx \in {Universal, NullObject}

\* The object groups that exist: <<base, size>>.  sizes: the current sizes of
\* the opaque-born objects; shortcuts: the type-shortcut objects created.
ObjectGroups(sizes, shortcuts) ==
    {<<SizedBase(i), SizedSize(SizedList[i])>> : i \in 1..Len(SizedList)}
    \cup {<<b, sizes[b]>> : b \in DOMAIN sizes}
    \cup {<<shortcuts[st], ExpandedSize[st]>> : st \in DOMAIN shortcuts}

GroupOf(idx, sizes, shortcuts) ==
    {g \in ObjectGroups(sizes, shortcuts) : g[1] <= idx /\ idx < g[1] + g[2]}

isObjectNode(idx, sizes, shortcuts) == GroupOf(idx, sizes, shortcuts) # {}

\* size of the object idx belongs to, and idx's distance from its base
getObjectSize(idx, sizes, shortcuts) ==
    IF isObjectNode(idx, sizes, shortcuts)
        THEN (CHOOSE g \in GroupOf(idx, sizes, shortcuts) : TRUE)[2]
        ELSE 0
getObjectOffset(idx, sizes, shortcuts) ==
    IF isObjectNode(idx, sizes, shortcuts)
        THEN idx - (CHOOSE g \in GroupOf(idx, sizes, shortcuts) : TRUE)[1]
        ELSE 0

\* heap: the malloc-like call sites, the objects created at call sites during
\* the run, and the type-shortcut objects (created with is_heap = true)
isHeapObject(idx, sizes, shortcuts) ==
    \/ \E b \in DOMAIN sizes : b <= idx /\ idx < b + sizes[b]
    \/ \E st \in DOMAIN shortcuts :
           shortcuts[st] <= idx /\ idx < shortcuts[st] + ExpandedSize[st]
\* opaque: born opaque and not resized yet
isOpaqueObject(idx, sizes) == idx \in DOMAIN sizes /\ sizes[idx] = 1

\* getValueForNode, as far as the call resolver needs it: the function an
\* object node stands for ("" when the node's value is no function)
FunctionForNode(idx) ==
    IF \E f \in Functions : getObjectNodeFor(f) = idx
        THEN CHOOSE f \in Functions : getObjectNodeFor(f) = idx
        ELSE ""

\* extendObjectSize: grow an opaque heap object in place to the record's
\* expanded size; its index stays
extendObjectSize(idx, st, sizes) == [sizes EXCEPT ![idx] = ExpandedSize[st]]

(***************************************************************************)
(* Points-to sets and the points-to graph.                                 *)
(***************************************************************************)
Max(S) == CHOOSE x \in S : \A y \in S : y <= x
Min(S) == CHOOSE x \in S : \A y \in S : x <= y
\* getSize(): one past the largest index present
getSize(S) == IF S = {} THEN 0 ELSE Max(S) + 1
find_first(S) == IF S = {} THEN 0 ELSE Min(S)
find_next(S, i) ==
    IF \E x \in S : x > i THEN Min({x \in S : x > i}) ELSE getSize(S)

\* funcPtsGraph.find(n) != end()
Found(pg, n) == n \in DOMAIN pg
\* reading pts(n): an absent key reads as the empty set
Pts(pg, n) == IF n \in DOMAIN pg THEN pg[n] ELSE {}
\* set union, the effect of AndersPtsSet::insert on the stored set
InsertOverwrite(old, new) == new
Insert(old, new) == old \cup new
\* funcPtsGraph[n].insert(S): operator[] creates the key, insert unions
InsertSet(pg, n, S) ==
    [k \in DOMAIN pg \cup {n} |-> IF k = n THEN Insert(Pts(pg, n), S) ELSE pg[k]]
\* the value of insert(): did the set grow
Grows(pg, n, S) == ~(S \subseteq Pts(pg, n))

(***************************************************************************)
(* Global context built while loading (doBasicInitialization).             *)
(***************************************************************************)
Loaded(ms) == UNION {{ms[m][j] : j \in 1..Len(ms[m])} : m \in 1..Len(ms)}
ModuleOf(f) == CHOOSE m \in 1..Len(modules) : InSeq(modules[m], f)

\* Ctx->Funcs: GUID -> the definition with external linkage
FuncsByGUID(guid) ==
    {g \in Loaded(modules) : IR[g].ext /\ hasBody(g) /\ IR[g].guid = guid}

getFuncDefNoLookup(F) == F
getFuncDef(F) ==
    IF FuncsByGUID(IR[F].guid) # {}
        THEN CHOOSE g \in FuncsByGUID(IR[F].guid) : TRUE
        ELSE F

(***************************************************************************)
(* findCalleesByType: FS \cup the address-taken functions that pass the    *)
(* filters.  Types of different modules live in different contexts.        *)
(***************************************************************************)
\* the type *AI yields: an actual argument, or, one past the arguments of a
\* call, the next operand, which is the called operand
ActualTy(CS, i) ==
    IF i <= Len(CS.ops) THEN ValTy(CS.ops[i]) ELSE ValTy(CS.co)

TypeMatches(F, CS, same) ==
    /\ \/ IR[F].va
       \/ /\ Len(IR[F].args) = Len(CS.ops)
          /\ isCompatibleType(IR[F].retTy, CS.ty, same, llvmMajor)
    /\ ~IR[F].intrinsic
    /\ \A i \in 1..Len(IR[F].args) :
           isCompatibleType(IR[F].argTys[i], ActualTy(CS, i), same, llvmMajor)

findCalleesByType(CS, csModule, FS) ==
    FS \cup {F \in AddressTakenFuncs : TypeMatches(F, CS, ModuleOf(F) = csModule)}

(***************************************************************************)
(* The state a handler of runOnFunction works on, as a record.             *)
(*   ch: the handler's contribution to Changed; abort: an assert failed.   *)
(***************************************************************************)
Cur ==
    [pg |-> funcPtsGraph, ch |-> FALSE, abort |-> FALSE, sizes |-> objSize,
     fresh |-> freshCount, callees |-> Callees, reach |-> reachable,
     unvis |-> unvisited, unres |-> unresolvedFPts, cbt |-> calleeByType,
     tso |-> typeShortcutsObj, last |-> lastCall]

Aborted(r) == [r EXCEPT !.abort = TRUE]

\* The({e : x \in {v}}) is e with x standing for the value of v: an operator
\* that is handed a computed handler state names its value this way
The(S) == CHOOSE x \in S : TRUE

\* the same with funcPtsGraph[n] assigned instead of inserted into
PropagateOverwrite(r0, n, S) ==
    [r0 EXCEPT !.pg = [m \in DOMAIN r0.pg \cup {n} |-> IF m = n THEN S ELSE r0.pg[m]],
               !.ch = r0.ch \/ Grows(r0.pg, n, S)]

\* pts(n) \cup= S, with the change flag set when the set grew
Propagate(r0, n, S) ==
    The({(
    [r EXCEPT !.pg = InsertSet(r.pg, n, S), !.ch = r.ch \/ Grows(r.pg, n, S)]
    ) : r \in {r0}})

\* Map[key].insert(x) on Callees / calleeByType: operator[] creates the key
AddTo(map, key, S) ==
    [k \in DOMAIN map \cup {key} |->
        IF k = key THEN (IF key \in DOMAIN map THEN map[key] ELSE {}) \cup S
        ELSE map[k]]

(***************************************************************************)
(* handleCall(CS, CF)                                                      *)
(***************************************************************************)
RECURSIVE BindArgs(_, _, _, _)
BindArgs(r0, CS, CF, i) ==
    The({(
    IF r.abort \/ i > Len(CS.ops) THEN r
    ELSE
        LET argNode == getValueNodeFor(CS.ops[i], fnValueNodes)
            formalNode == getValueNodeFor(IR[CF].args[i], fnValueNodes)
        IN  IF argNode = InvalidIndex THEN Aborted(r)
            ELSE IF ~Found(r.pg, argNode) THEN BindArgs(r, CS, CF, i + 1)
            ELSE IF formalNode = InvalidIndex THEN Aborted(r)
            ELSE IF formalNode \in r.tso THEN BindArgs(r, CS, CF, i + 1)
            ELSE BindArgs(Propagate(r, formalNode, r.pg[argNode]), CS, CF, i + 1)
    ) : r \in {r0}})

\* the return loop: idx walks pts(retNode); an opaque heap object returned by
\* a function whose name contains "alloc" is replaced by a new opaque heap
\* object, and the walk goes on from the index that was inserted
IsAllocatorReturn(r, CF, idx) ==
    /\ isHeapObject(idx, r.sizes, typeShortcuts)
    /\ isOpaqueObject(idx, r.sizes)
    /\ contains(IR[CF].name, <<"a", "l", "l", "o", "c">>)

\* NF.createOpaqueObjectNode(CS, true): the next fresh object, of size 1
createOpaqueObjectNode(r, obj) ==
    [r EXCEPT !.fresh = r.fresh + 1,
              !.sizes = [b \in DOMAIN r.sizes \cup {obj} |->
                            IF b = obj THEN 1 ELSE r.sizes[b]]]

RECURSIVE BindReturn(_, _, _, _, _, _)
\* idx = itr->second.find_next(idx), on the set as it is after the insert
BindReturnNext(r0, CF, retNode, callNode, obj, end) ==
    The({(
    BindReturn(r, CF, retNode, callNode, find_next(Pts(r.pg, retNode), obj), end)
    ) : r \in {r0}})

BindReturn(r, CF, retNode, callNode, idx, end) ==
    IF idx >= end THEN r
    ELSE IF IsAllocatorReturn(r, CF, idx)
        THEN BindReturnNext(Propagate(createOpaqueObjectNode(r, FreshBase(r.fresh)),
                                      callNode, {FreshBase(r.fresh)}),
                            CF, retNode, callNode, FreshBase(r.fresh), end)
        ELSE BindReturnNext(Propagate(r, callNode, {idx}),
                            CF, retNode, callNode, idx, end)

\* "handle return", on the state r left by the argument loop
handleCallReturn(r0, CS, CF, retNode, callNode) ==
    The({(
    IF r.abort THEN r
    ELSE IF IR[CF].retTy = VoidTy THEN r
    ELSE IF callNode = InvalidIndex THEN Aborted(r)
    ELSE IF ~Found(r.pg, retNode) THEN r
    ELSE BindReturn(r, CF, retNode, callNode,
                    find_first(r.pg[retNode]), getSize(r.pg[retNode]))
    ) : r \in {r0}})

\* the same with the disabled branch of the vararg loop: the actuals are
\* inserted into the vararg node
handleCallArgsIntoVararg(r, CS, CF) ==
    IF IR[CF].va
        THEN Propagate(r, getVarargNodeFor(CF),
                       UNION {Pts(r.pg, getValueNodeFor(CS.ops[i], fnValueNodes)) :
                                 i \in 1..Len(CS.ops)})
        ELSE BindArgs(r, CS, CF, 1)

\* "handle args"
handleCallArgs(r, CS, CF) ==
    IF IR[CF].va
        THEN IF getVarargNodeFor(CF) = InvalidIndex THEN Aborted(r) ELSE r
        ELSE BindArgs(r, CS, CF, 1)

\* the same with the argument count never compared
ArityMismatchNever(CS, CF) == FALSE

\* if (numArgs != CF->arg_size()) return false, for a non-variadic CF
ArityMismatch(CS, CF) == ~IR[CF].va /\ Len(CS.ops) # Len(IR[CF].args)

handleCallBody(r0, CS, CF) ==
    The({(
    IF IR[CF].intrinsic THEN r
    ELSE IF ~hasBody(CF) THEN r
    ELSE IF ArityMismatch(CS, CF) THEN r
    ELSE handleCallReturn(handleCallArgs(r, CS, CF), CS, CF,
                          getReturnNodeFor(CF),
                          getValueNodeFor(CS.id, fnValueNodes))
    ) : r \in {r0}})

\* the same with `return true` in place of `return Changed`
handleCallResultTrue(r, r10, CS, CF) ==
    [r10 EXCEPT !.ch = TRUE, !.last = [cs |-> CS.id, cf |-> CF, ret |-> TRUE]]

\* `Changed |= handleCall(CS, CF)`: r is the state before the call, r1 the
\* state after it; the call and the value it returned are recorded in last
handleCallResult(r, r10, CS, CF) ==
    The({(
    [r1 EXCEPT !.ch = r.ch \/ r1.ch,
               !.last = [cs |-> CS.id, cf |-> CF, ret |-> r1.ch]]
    ) : r1 \in {r10}})

handleCall(r0, CS, CF) ==
    The({(
    handleCallResult(r, handleCallBody([r EXCEPT !.ch = FALSE], CS, CF), CS, CF)
    ) : r \in {r0}})

(***************************************************************************)
(* runOnFunction: one operator per case of the switch.  F is the function  *)
(* being processed, I the instruction, r the handler state.                *)
(***************************************************************************)
VN(v) == getValueNodeFor(v, fnValueNodes)

\* the same with the callee queued in unvisited but never put in reachable
AddCalleeUnvisitedOnly(r, CS, CF) ==
    [r EXCEPT !.unvis = r.unvis \cup {CF},
              !.callees = AddTo(r.callees, CS.id, {CF})]

\* if (reachable.insert(CF).second) unvisited.insert(CF); Callees[CS].insert(CF)
AddCallee(r, CS, CF) ==
    [r EXCEPT !.reach = r.reach \cup {CF},
              !.unvis = IF CF \in r.reach THEN r.unvis ELSE r.unvis \cup {CF},
              !.callees = AddTo(r.callees, CS.id, {CF})]

\* case Instruction::Ret
DoRet(r, F, I) ==
    IF Len(I.ops) = 0 THEN r
    ELSE
        LET rvNode == VN(I.ops[1])
            RT == getReturnNodeFor(F)
        IN  IF rvNode = InvalidIndex THEN Aborted(r)
            ELSE IF RT \in r.tso THEN r
            ELSE IF Found(r.pg, rvNode) THEN Propagate(r, RT, r.pg[rvNode])
            ELSE r

\* direct call
DoDirectCall(r, F, I) ==
    LET RCF == getFuncDef(I.callee)
    IN  handleCall(AddCallee(r, I, RCF), I, RCF)

\* the loop over the points-to set of the called operand; the set is read
\* as it is when find_next is called
\* one callee object of an indirect call
ResolveObject(r, I, idx, CF) ==
    IF isSpecialNode(idx) THEN r
    ELSE IF ~isObjectNode(idx, r.sizes, typeShortcuts) THEN Aborted(r)
    ELSE IF CF = "" THEN r
    ELSE handleCall(AddCallee(r, I, CF), I, CF)

RECURSIVE ResolveIndirect(_, _, _, _, _)
ResolveNext(r0, I, callee, idx, end) ==
    The({(
    ResolveIndirect(r, I, callee, find_next(Pts(r.pg, callee), idx), end)
    ) : r \in {r0}})

ResolveIndirect(r, I, callee, idx, end) ==
    IF r.abort \/ idx >= end THEN r
    ELSE ResolveNext(ResolveObject(r, I, idx, FunctionForNode(idx)),
                     I, callee, idx, end)

\* the type-based fallback of an indirect call whose operand has no key:
\* TS is calleeByType[CS] after findCalleesByType
TypeFallbackIntoCallees(r, I, callee, TS) ==
    [r EXCEPT !.callees = AddTo(r.callees, I.id, TS),
              !.cbt = AddTo(r.cbt, I.id, TS),
              !.unres = IF TS # {} THEN r.unres \cup {callee} ELSE r.unres]

TypeFallbackWith(r, I, callee, TS) ==
    [r EXCEPT !.cbt = AddTo(r.cbt, I.id, TS),
              !.unres = IF TS # {} THEN r.unres \cup {callee} ELSE r.unres]

TypeFallback(r, F, I, callee) ==
    TypeFallbackWith(r, I, callee,
                     findCalleesByType(I, ModuleOf(F),
                                       IF I.id \in DOMAIN r.cbt THEN r.cbt[I.id] ELSE {}))

\* "update unresolved function pointers", after the loop
EraseUnresolved(r0, callee) ==
    The({(
    IF ~r.abort /\ getSize(Pts(r.pg, callee)) # 0
        THEN [r EXCEPT !.unres = r.unres \ {callee}]
        ELSE r
    ) : r \in {r0}})

IndirectCallOn(r, F, I, callee) ==
    IF callee = InvalidIndex THEN Aborted(r)
    ELSE IF Found(r.pg, callee)
        THEN EraseUnresolved(ResolveIndirect(r, I, callee, find_first(r.pg[callee]),
                                             getSize(r.pg[callee])),
                             callee)
        ELSE TypeFallback(r, F, I, callee)

DoIndirectCall(r, F, I) == IndirectCallOn(r, F, I, VN(I.co))

\* case Instruction::Load
\* "try apply type shortcuts first"
LoadShortcut(r, I, valNode) ==
    IF /\ I.ty.k = "ptr"
       /\ I.ty.el[1].k = "struct"
       /\ getStructInfo(I.ty.el[1]) \in DOMAIN typeShortcuts
        THEN [Propagate(r, valNode, {typeShortcuts[getStructInfo(I.ty.el[1])]})
                EXCEPT !.tso = r.tso \cup {valNode}]
        ELSE r

\* the same with the null object never taken as the last element
LoadNullLastNever(S) == FALSE

\* idx == NullObject && find_next(idx) == end
LoadNullLast(S) == S # {} /\ NullObject = Max(S)

LoadPropagate(r, valNode, loaded) ==
    IF loaded # {} THEN Propagate(r, valNode, loaded) ELSE r

\* "normal handling": S is pts(ptrNode); a null object that is the last
\* element is inserted without setting Changed and ends the loop
LoadLoop(r, valNode, S) ==
    IF LoadNullLast(S)
        THEN [LoadPropagate(r, valNode,
                            UNION {Pts(r.pg, idx) : idx \in S \ {NullObject}})
                EXCEPT !.pg = InsertSet(@, valNode, {NullObject})]
        ELSE LoadPropagate(r, valNode, UNION {Pts(r.pg, idx) : idx \in S})

LoadFrom(r0, valNode, ptrNode) ==
    The({(
        LoadLoop(r, valNode, Pts(r.pg, ptrNode))
    ) : r \in {r0}})

DoLoad(r, F, I) ==
    IF VN(I.id) \in r.tso THEN r
    ELSE LoadFrom(LoadShortcut(r, I, VN(I.id)), VN(I.id), VN(I.ops[1]))

\* case Instruction::Store: the loop over pts(ptrNode)
RECURSIVE StoreLoop(_, _, _, _, _)
StoreNext(r0, valNode, ptrNode, idx, end) ==
    The({(
    StoreLoop(r, valNode, ptrNode, find_next(Pts(r.pg, ptrNode), idx), end)
    ) : r \in {r0}})

\* the same without the test for special nodes
StoreLoopIntoSpecial(r, valNode, ptrNode, idx, end) ==
    IF idx >= end THEN r
    ELSE StoreNext(Propagate(r, idx, Pts(r.pg, valNode)), valNode, ptrNode, idx, end)

StoreLoop(r, valNode, ptrNode, idx, end) ==
    IF idx >= end THEN r
    ELSE IF isSpecialNode(idx) THEN StoreNext(r, valNode, ptrNode, idx, end)
    ELSE StoreNext(Propagate(r, idx, Pts(r.pg, valNode)), valNode, ptrNode, idx, end)

\* the same with the value's set read without the test for its key
DoStoreUnguarded(r, F, I) ==
    LET valNode == VN(I.ops[1])
        ptrNode == VN(I.ops[2])
    IN  IF ValTy(I.ops[1]).k # "ptr" THEN r
        ELSE IF Found(r.pg, ptrNode)
            THEN StoreLoop(r, valNode, ptrNode, find_first(r.pg[ptrNode]),
                           getSize(r.pg[ptrNode]))
            ELSE r

DoStore(r, F, I) ==
    LET valNode == VN(I.ops[1])
        ptrNode == VN(I.ops[2])
    IN  IF ValTy(I.ops[1]).k # "ptr" THEN r
        ELSE IF Found(r.pg, valNode) /\ Found(r.pg, ptrNode)
            THEN StoreLoop(r, valNode, ptrNode, find_first(r.pg[ptrNode]),
                           getSize(r.pg[ptrNode]))
            ELSE r

\* getElementTy: strip array (and vector) types
RECURSIVE getElementTy(_)
getElementTy(T) == IF T.k = "array" THEN getElementTy(T.el[1]) ELSE T

\* case Instruction::GetElementPtr: the loop over pts(ptrNode).  A negative
\* offset leaves the loop (break); an oversized non-opaque object is skipped.
RECURSIVE GepLoop(_, _, _, _, _, _)
GepNext(r0, I, valNode, ptrNode, idx, end) ==
    The({(
    GepLoop(r, I, valNode, ptrNode, find_next(Pts(r.pg, ptrNode), idx), end)
    ) : r \in {r0}})

\* resize the object (idx = extendObjectSize(...)); only heap objects
GepResize(r, idx, ptrTy) ==
    IF isHeapObject(idx, r.sizes, typeShortcuts)
        THEN [r EXCEPT !.sizes = extendObjectSize(idx, getStructInfo(ptrTy), r.sizes)]
        ELSE Aborted(r)

\* the field node: an offset past allocSize is clamped to allocSize - 1
GepIndex(idx, field, offset, allocSize) ==
    IF offset + field > allocSize
        THEN (allocSize - 1) % IndexModulus
        ELSE idx + field

\* r is the state after the resize, allocSize the size read before it
GepField(r0, I, valNode, ptrNode, idx, end, allocSize) ==
    The({(
    IF r.abort THEN r
    ELSE IF I.off < 0 THEN r
    ELSE GepNext(Propagate(r, valNode,
                           {GepIndex(idx, I.field,
                                     getObjectOffset(idx, r.sizes, typeShortcuts),
                                     allocSize)}),
                 I, valNode, ptrNode, idx, end)
    ) : r \in {r0}})

GepObject(r, I, valNode, ptrNode, idx, end, ptrTy, allocSize) ==
    IF ptrTy.k = "struct" /\ ExpandedSize[getStructInfo(ptrTy)] > allocSize
        THEN IF isOpaqueObject(idx, r.sizes)
                THEN GepField(GepResize(r, idx, ptrTy), I, valNode, ptrNode,
                              idx, end, allocSize)
                ELSE GepNext(r, I, valNode, ptrNode, idx, end)
        ELSE GepField(r, I, valNode, ptrNode, idx, end, allocSize)

GepLoop(r, I, valNode, ptrNode, idx, end) ==
    IF r.abort \/ idx >= end THEN r
    ELSE IF isSpecialNode(idx)
        THEN GepNext(Propagate(r, valNode, {idx}), I, valNode, ptrNode, idx, end)
    ELSE GepObject(r, I, valNode, ptrNode, idx, end, getElementTy(I.elty),
                   getObjectSize(idx, r.sizes, typeShortcuts))

DoGEP(r, F, I) ==
    LET ptrNode == VN(I.ops[1])
        valNode == VN(I.id)
    IN  IF Found(r.pg, ptrNode)
            THEN GepLoop(r, I, valNode, ptrNode, find_first(r.pg[ptrNode]),
                         getSize(r.pg[ptrNode]))
            ELSE r

\* BitCast, PHI and Select: pts(dst) \cup= pts(src) for the operands ops[from..]
RECURSIVE CopyOperands(_, _, _, _)
CopyOperands(r0, I, dstNode, i) ==
    The({(
    IF r.abort \/ i > Len(I.ops) THEN r
    ELSE
        LET srcNode == VN(I.ops[i])
        IN  IF srcNode = InvalidIndex THEN Aborted(r)
            ELSE IF Found(r.pg, srcNode)
                THEN CopyOperands(Propagate(r, dstNode, r.pg[srcNode]), I, dstNode, i + 1)
                ELSE CopyOperands(r, I, dstNode, i + 1)
    ) : r \in {r0}})

DoBitCast(r, F, I) == CopyOperands(r, I, VN(I.id), 1)
DoPHI(r, F, I) == CopyOperands(r, I, VN(I.id), 1)
DoSelect(r, F, I) == CopyOperands(r, I, VN(I.id), 2)

(***************************************************************************)
(* doInitialization(M)                                                     *)
(***************************************************************************)
FunctionsOf(M) == {M[j] : j \in 1..Len(M)}
InstsOf(M) == UNION {{Body(f)[i] : i \in 1..Len(Body(f))} : f \in FunctionsOf(M)}
\* the global variables of a module: the struct S gs lives with main4
GlobalsOf(M) == IF InSeq(M, "main4") THEN {"gs"} ELSE {}
GlobalValueTy(g) == ValTy(g).el[1]

\* funcPtsGraph[valNode].insert(objNode) for an address-taken function
SeedAddressTakenNothing(pg, F, created) == pg
SeedAddressTaken(pg, F, created) ==
    InsertSet(pg, getValueNodeFor(F, created), {getObjectNodeFor(F)})

RECURSIVE SeedModule(_, _, _, _)
SeedModule(pg, M, j, created) ==
    IF j > Len(M) THEN pg
    ELSE IF hasAddressTaken(M[j], M)
        THEN SeedModule(SeedAddressTaken(pg, M[j], created \cup {M[j]}), M, j + 1,
                        created \cup {M[j]})
        ELSE SeedModule(pg, M, j + 1, created)

\* F.getName().equals("main") || F.getName().startswith("SyS_")
isEntry(F) == IR[F].name = N_main \/ startswith(IR[F].name, <<"S", "y", "S", "_">>)

\* pointer-to-record type: the record's StructInfo, "" otherwise
RecordOf(ty) ==
    IF ty.k = "ptr" /\ ty.el[1].k = "struct" THEN getStructInfo(ty.el[1]) ELSE ""

\* the value doInitialization returns
DoInitializationRetTrue == TRUE
DoInitializationRet == FALSE

\* the direct call instructions among the users of F
DirectCallUsers(F, M) ==
    {I.id : I \in {J \in InstsOf(M) : J.op = "call" /\ ~J.asm /\ J.callee = F}}

RECURSIVE InitCallers(_, _, _)
InitCallers(cs, M, j) ==
    IF j > Len(M) THEN cs
    ELSE InitCallers(AddTo(cs, getFuncDef(M[j]), DirectCallUsers(M[j], M)), M, j + 1)

DoInitialization ==
    /\ phase = "init"
    /\ mi <= Len(modules)
    /\ LET M == modules[mi]
           Fs == FunctionsOf(M)
           taken == {F \in Fs : hasAddressTaken(F, M)}
           created == fnValueNodes \cup taken
           structGlobals == {g \in GlobalsOf(M) : getElementTy(GlobalValueTy(g)).k = "struct"}
           rets == {F \in Fs : RecordOf(IR[F].retTy) # ""}
           args == {a \in UNION {{<<F, k>> : k \in 1..Len(IR[F].args)} : F \in Fs} :
                        RecordOf(IR[a[1]].argTys[a[2]]) # ""}
       IN  /\ globalStructs' =
                 [st \in DOMAIN globalStructs
                         \cup {getStructInfo(getElementTy(GlobalValueTy(g))) : g \in structGlobals} |->
                     (IF st \in DOMAIN globalStructs THEN globalStructs[st] ELSE {})
                     \cup {getValueNodeFor(g, created) : g \in
                            {h \in structGlobals :
                                getStructInfo(getElementTy(GlobalValueTy(h))) = st}}]
           /\ Callers' = InitCallers(Callers, M, 1)
           /\ AddressTakenFuncs' = AddressTakenFuncs \cup taken
           /\ fnValueNodes' = created
           /\ funcPtsGraph' = SeedModule(funcPtsGraph, M, 1, fnValueNodes)
           /\ reachable' = reachable \cup {F \in Fs : isEntry(F)}
           /\ unvisited' = unvisited \cup {F \in Fs : isEntry(F)}
           /\ retStructs' =
                 [st \in DOMAIN retStructs \cup {RecordOf(IR[F].retTy) : F \in rets} |->
                     (IF st \in DOMAIN retStructs THEN retStructs[st] ELSE {})
                     \cup {getValueNodeFor(F, created) :
                            F \in {G \in rets : RecordOf(IR[G].retTy) = st}}]
           /\ argStructs' =
                 [st \in DOMAIN argStructs
                         \cup {RecordOf(IR[a[1]].argTys[a[2]]) : a \in args} |->
                     (IF st \in DOMAIN argStructs THEN argStructs[st] ELSE {})
                     \cup {getValueNodeFor(IR[a[1]].args[a[2]], created) :
                            a \in {b \in args : RecordOf(IR[b[1]].argTys[b[2]]) = st}}]
    /\ again' = (again \/ DoInitializationRet)
    /\ mi' = mi + 1
    /\ UNCHANGED << modules, llvmMajor, phase, fi, ii, Iteration, changed, Changed,
                    fnChanged, sweeps, runCount, Callees, calleeByType,
                    unresolvedFPts, typeShortcuts, typeShortcutsObj, objSize,
                    freshCount, lastCall, T1, T2, sameCtx, compat, InputFilenames,
                   fileIdx, exitCode, OS, IR, ptsAtEntry >>

\* Iteration++ (saturated at IterationCap)
Inc(n) == IF n < IterationCap THEN n + 1 ELSE n

\* the end of one sweep of the initialization loop of run()
InitSweepEnd ==
    /\ phase = "init"
    /\ mi > Len(modules)
    /\ Iteration' = Inc(Iteration)
    /\ mi' = 1
    /\ again' = FALSE
    /\ IF again
          THEN UNCHANGED << phase, changed, sweeps >>
          ELSE phase' = "pass" /\ changed' = 0 /\ sweeps' = 1
    /\ UNCHANGED << modules, llvmMajor, fi, ii, Changed, fnChanged, runCount,
                    funcPtsGraph, Callees, Callers, calleeByType, AddressTakenFuncs,
                    reachable, unvisited, unresolvedFPts, typeShortcuts,
                    typeShortcutsObj, retStructs, argStructs, globalStructs,
                    fnValueNodes, objSize, freshCount, lastCall, T1, T2, sameCtx,
                    compat, InputFilenames,
                   fileIdx, exitCode, OS, IR, ptsAtEntry >>

(***************************************************************************)
(* doModulePass(M)                                                         *)
(***************************************************************************)
\* the record types that get a type shortcut: returned and taken as an
\* argument by some function, and the type of no global variable
ShortcutCandidates ==
    IF DOMAIN typeShortcuts # {} THEN {}
    ELSE {st \in DOMAIN retStructs : st \in DOMAIN argStructs /\ st \notin DOMAIN globalStructs}

ShortcutNodes(st) == retStructs[st] \cup argStructs[st]

\* `if (Iteration < 2)`: does this call of doModulePass run the functions
RunsFunctionsAlways(iter) == TRUE
RunsFunctions(iter) == iter < 2

\* which functions of the module runOnFunction is applied to
IsProcessedIfReachable(F) == hasBody(F) /\ ~IR[F].intrinsic /\ F \in reachable
IsProcessed(F) == ~(~hasBody(F) \/ IR[F].intrinsic)

\* the return of doModulePass to run(), and the step to the next module
ReturnToRun(ret) ==
    /\ changed' = IF ret THEN changed + 1 ELSE changed
    /\ mi' = mi + 1
    /\ fi' = 0
    /\ ii' = 0

\* entry of doModulePass: type-shortcut creation, then the Iteration guard
ModulePassBegin ==
    /\ phase = "pass"
    /\ mi <= Len(modules)
    /\ fi = 0
    /\ ptsAtEntry' = funcPtsGraph
    /\ LET cands == ShortcutCandidates
           nodes == UNION {ShortcutNodes(st) : st \in cands}
       IN  /\ typeShortcuts' = [st \in cands |-> ShortcutBase(st)] @@ typeShortcuts
           /\ typeShortcutsObj' = typeShortcutsObj \cup nodes
           /\ funcPtsGraph' =
                 [n \in DOMAIN funcPtsGraph \cup nodes |->
                     IF n \in nodes
                        THEN Insert(Pts(funcPtsGraph, n),
                                    {ShortcutBase(st) :
                                        st \in {c \in cands : n \in ShortcutNodes(c)}})
                        ELSE funcPtsGraph[n]]
    /\ IF RunsFunctions(Iteration)
          THEN /\ Changed' = FALSE
               /\ fi' = 1
               /\ UNCHANGED << mi, ii, changed >>
          ELSE /\ Changed' = TRUE
               /\ ReturnToRun(FALSE)
    /\ UNCHANGED << modules, llvmMajor, phase, Iteration, again, fnChanged, sweeps,
                    runCount, Callees, Callers, calleeByType, AddressTakenFuncs,
                    reachable, unvisited, unresolvedFPts, retStructs, argStructs,
                    globalStructs, fnValueNodes, objSize, freshCount, lastCall,
                    T1, T2, sameCtx, compat, InputFilenames,
                   fileIdx, exitCode, OS, IR >>

InFunctionLoop == phase = "pass" /\ mi <= Len(modules) /\ fi >= 1
CurF == modules[mi][fi]
CurI == Body(CurF)[ii]

\* the loop over the functions of M: skip a declaration, or enter
\* runOnFunction (unvisited.erase(F))
EnterFunction ==
    /\ InFunctionLoop
    /\ fi <= Len(modules[mi])
    /\ ii = 0
    /\ IF IsProcessed(CurF)
          THEN /\ unvisited' = unvisited \ {CurF}
               /\ fnChanged' = FALSE
               /\ ii' = 1
               /\ runCount' = [runCount EXCEPT ![CurF] = Inc(@)]
               /\ UNCHANGED fi
          ELSE /\ fi' = fi + 1
               /\ UNCHANGED << unvisited, fnChanged, ii, runCount >>
    /\ UNCHANGED << modules, llvmMajor, phase, mi, Iteration, again, changed, Changed,
                    sweeps, funcPtsGraph, Callees, Callers, calleeByType,
                    AddressTakenFuncs, reachable, unresolvedFPts, typeShortcuts,
                    typeShortcutsObj, retStructs, argStructs, globalStructs,
                    fnValueNodes, objSize, freshCount, lastCall, T1, T2, sameCtx,
                    compat, InputFilenames,
                   fileIdx, exitCode, OS, IR, ptsAtEntry >>

AtInst == InFunctionLoop /\ fi <= Len(modules[mi]) /\ ii >= 1 /\ ii <= Len(Body(CurF))

\* the effect of one handler on the state of the pass
Commit(r) ==
    /\ r.fresh <= MaxFresh
    /\ funcPtsGraph' = r.pg
    /\ fnChanged' = (fnChanged \/ r.ch)
    /\ objSize' = r.sizes
    /\ freshCount' = r.fresh
    /\ Callees' = r.callees
    /\ reachable' = r.reach
    /\ unvisited' = r.unvis
    /\ unresolvedFPts' = r.unres
    /\ calleeByType' = r.cbt
    /\ typeShortcutsObj' = r.tso
    /\ lastCall' = r.last
    /\ phase' = IF r.abort THEN "abort" ELSE phase
    /\ ii' = ii + 1
    /\ UNCHANGED << modules, llvmMajor, mi, fi, Iteration, again, changed, Changed,
                    sweeps, runCount, Callers, AddressTakenFuncs, typeShortcuts,
                    retStructs, argStructs, globalStructs, fnValueNodes, T1, T2,
                    sameCtx, compat, InputFilenames,
                   fileIdx, exitCode, OS, IR, ptsAtEntry >>

StepRet == AtInst /\ CurI.op = "ret" /\ \E r \in {DoRet(Cur, CurF, CurI)} : Commit(r)

IsCall(I) == I.op \in {"call", "invoke"}

\* if (CS->isInlineAsm()) break;
StepInlineAsm == AtInst /\ IsCall(CurI) /\ CurI.asm /\ \E r \in {Cur} : Commit(r)

StepDirectCall ==
    /\ AtInst
    /\ IsCall(CurI) /\ ~CurI.asm /\ CurI.callee # ""
    /\ \E r \in {DoDirectCall(Cur, CurF, CurI)} : Commit(r)

StepIndirectCall ==
    /\ AtInst
    /\ IsCall(CurI) /\ ~CurI.asm /\ CurI.callee = ""
    /\ \E r \in {DoIndirectCall(Cur, CurF, CurI)} : Commit(r)

\* the same with the change flag set
DoAllocaChanged(r, F, I) == [r EXCEPT !.ch = TRUE]

\* case Instruction::Alloca: "do nothing"
DoAlloca(r, F, I) == r

StepAlloca == AtInst /\ CurI.op = "alloca" /\ \E r \in {DoAlloca(Cur, CurF, CurI)} : Commit(r)
StepLoad == AtInst /\ CurI.op = "load" /\ \E r \in {DoLoad(Cur, CurF, CurI)} : Commit(r)
StepStore == AtInst /\ CurI.op = "store" /\ \E r \in {DoStore(Cur, CurF, CurI)} : Commit(r)
StepGEP == AtInst /\ CurI.op = "gep" /\ \E r \in {DoGEP(Cur, CurF, CurI)} : Commit(r)
StepBitCast == AtInst /\ CurI.op = "bitcast" /\ \E r \in {DoBitCast(Cur, CurF, CurI)} : Commit(r)
StepPHI == AtInst /\ CurI.op = "phi" /\ \E r \in {DoPHI(Cur, CurF, CurI)} : Commit(r)
StepSelect == AtInst /\ CurI.op = "select" /\ \E r \in {DoSelect(Cur, CurF, CurI)} : Commit(r)
\* the instructions the loop skips before the switch
StepSkipped == AtInst /\ CurI.op \in SkippedOps /\ \E r \in {Cur} : Commit(r)
\* default: WARNING("Unhandled instruction")
StepUnhandled == AtInst /\ CurI.op \notin (SkippedOps \cup HandledOps) /\ \E r \in {Cur} : Commit(r)

\* runOnFunction returns: Changed |= runOnFunction(&F)
LeaveFunction ==
    /\ InFunctionLoop
    /\ fi <= Len(modules[mi])
    /\ ii > Len(Body(CurF))
    /\ Changed' = (Changed \/ fnChanged)
    /\ fi' = fi + 1
    /\ ii' = 0
    /\ UNCHANGED << modules, llvmMajor, phase, mi, Iteration, again, changed,
                    fnChanged, sweeps, runCount, funcPtsGraph, Callees, Callers,
                    calleeByType, AddressTakenFuncs, reachable, unvisited,
                    unresolvedFPts, typeShortcuts, typeShortcutsObj, retStructs,
                    argStructs, globalStructs, fnValueNodes, objSize, freshCount,
                    lastCall, T1, T2, sameCtx, compat, InputFilenames,
                   fileIdx, exitCode, OS, IR, ptsAtEntry >>

\* ret |= Changed; return ret
ModulePassEnd ==
    /\ InFunctionLoop
    /\ fi > Len(modules[mi])
    /\ ReturnToRun(Changed)
    /\ UNCHANGED << modules, llvmMajor, phase, Iteration, again, Changed, fnChanged,
                    sweeps, runCount, funcPtsGraph, Callees, Callers, calleeByType,
                    AddressTakenFuncs, reachable, unvisited, unresolvedFPts,
                    typeShortcuts, typeShortcutsObj, retStructs, argStructs,
                    globalStructs, fnValueNodes, objSize, freshCount, lastCall,
                    T1, T2, sameCtx, compat, InputFilenames,
                   fileIdx, exitCode, OS, IR, ptsAtEntry >>

\* the end of one sweep of the fixpoint loop of run(): `while (changed)`
SweepEnd ==
    /\ phase = "pass"
    /\ mi > Len(modules)
    /\ Iteration' = IF changed # 0 THEN Inc(Iteration) ELSE 0
    /\ mi' = 1
    /\ changed' = 0
    /\ IF changed # 0
          THEN sweeps' = Inc(sweeps) /\ UNCHANGED phase
          ELSE phase' = "final" /\ UNCHANGED sweeps
    /\ UNCHANGED << modules, llvmMajor, fi, ii, again, Changed, fnChanged, runCount,
                    funcPtsGraph, Callees, Callers, calleeByType, AddressTakenFuncs,
                    reachable, unvisited, unresolvedFPts, typeShortcuts,
                    typeShortcutsObj, retStructs, argStructs, globalStructs,
                    fnValueNodes, objSize, freshCount, lastCall, T1, T2, sameCtx,
                    compat, InputFilenames,
                   fileIdx, exitCode, OS, IR, ptsAtEntry >>

(***************************************************************************)
(* doFinalization(M) and the finalization loop of run()                    *)
(***************************************************************************)
\* the CallInsts of M that are not inline asm, in no particular order (the
\* updates of different call sites commute)
\* the same without the test for inline asm
FinalCallInstsWithAsm(M) == {I \in InstsOf(M) : I.op = "call"}

FinalCallInsts(M) == {I \in InstsOf(M) : I.op = "call" /\ ~I.asm}

\* the same with doFinalization asking for another sweep
DoFinalizationRetTrue == TRUE

\* the value doFinalization returns
DoFinalizationRet == FALSE

DoFinalization ==
    /\ phase = "final"
    /\ mi <= Len(modules)
    /\ LET CIs == FinalCallInsts(modules[mi])
           \* FuncSet &FS = Ctx->Callees[CI] creates the key
           callees2 == [cs \in DOMAIN Callees \cup {I.id : I \in CIs} |->
                            IF cs \in DOMAIN Callees THEN Callees[cs] ELSE {}]
           targets == UNION {callees2[I.id] : I \in CIs}
       IN  /\ Callees' = callees2
           /\ Callers' =
                 [F \in DOMAIN Callers \cup targets |->
                     (IF F \in DOMAIN Callers THEN Callers[F] ELSE {})
                     \cup {I.id : I \in {J \in CIs : F \in callees2[J.id]}}]
           /\ calleeByType' =
                 [cs \in DOMAIN calleeByType \cup {I.id : I \in CIs} |->
                     IF \E I \in CIs : I.id = cs
                        THEN findCalleesByType(CHOOSE I \in CIs : I.id = cs, mi,
                                 IF cs \in DOMAIN calleeByType THEN calleeByType[cs] ELSE {})
                        ELSE calleeByType[cs]]
    /\ again' = (again \/ DoFinalizationRet)
    /\ mi' = mi + 1
    /\ UNCHANGED << modules, llvmMajor, phase, fi, ii, Iteration, changed, Changed,
                    fnChanged, sweeps, runCount, funcPtsGraph, AddressTakenFuncs,
                    reachable, unvisited, unresolvedFPts, typeShortcuts,
                    typeShortcutsObj, retStructs, argStructs, globalStructs,
                    fnValueNodes, objSize, freshCount, lastCall, T1, T2, sameCtx,
                    compat, InputFilenames,
                   fileIdx, exitCode, OS, IR, ptsAtEntry >>

FinalSweepEnd ==
    /\ phase = "final"
    /\ mi > Len(modules)
    /\ Iteration' = Inc(Iteration)
    /\ mi' = 1
    /\ again' = FALSE
    /\ phase' = IF again THEN "final" ELSE "done"
    /\ UNCHANGED << modules, llvmMajor, fi, ii, changed, Changed, fnChanged, sweeps,
                    runCount, funcPtsGraph, Callees, Callers, calleeByType,
                    AddressTakenFuncs, reachable, unvisited, unresolvedFPts,
                    typeShortcuts, typeShortcutsObj, retStructs, argStructs,
                    globalStructs, fnValueNodes, objSize, freshCount, lastCall,
                    T1, T2, sameCtx, compat, InputFilenames,
                   fileIdx, exitCode, OS, IR, ptsAtEntry >>

(***************************************************************************)
(* Initial states: a loaded module list, after populateNodeFactory and the *)
(* construction of the pass.                                               *)
(***************************************************************************)
EmptyMap == [x \in {} |-> {}]
LLVMVersions == {12, 14}

Range(seq) == {seq[i] : i \in 1..Len(seq)}
Perms(seq) ==
    {q \in [1..Len(seq) -> Range(seq)] : \A i, j \in 1..Len(seq) : q[i] = q[j] => i = j}

\* the module lists of a program: its modules in any order, the functions
\* of each module in any order
ModuleLists(prog) ==
    {ms \in [1..Len(prog) -> UNION {Perms(prog[m]) : m \in 1..Len(prog)}] :
        \E o \in Perms([m \in 1..Len(prog) |-> m]) :
            \A m \in 1..Len(prog) : ms[m] \in Perms(prog[o[m]])}

\* the edges the node factory's population seeds: a global, a stack slot or
\* a heap call site points to its object; the null pointer to NullObject
AllocationSites(ms) ==
    UNION {GlobalsOf(ms[m]) : m \in 1..Len(ms)}
    \cup {I.id : I \in {J \in UNION {InstsOf(ms[m]) : m \in 1..Len(ms)} :
                          J.op = "alloca" \/ InSeq(OpaqueList, J.id)}}

InitPtsGraph(ms) ==
    [n \in {getValueNodeFor("null", {})}
           \cup {getValueNodeFor(v, {}) : v \in AllocationSites(ms)} |->
        IF n = getValueNodeFor("null", {}) THEN {NullObject}
        ELSE {getObjectNodeFor(CHOOSE v \in AllocationSites(ms) : getValueNodeFor(v, {}) = n)}]

InitObjSize(ms) ==
    [b \in {getObjectNodeFor(v) : v \in {w \in AllocationSites(ms) : InSeq(OpaqueList, w)}} |-> 1]

NoCall == [cs |-> "", cf |-> "", ret |-> FALSE]

\* the state of a pass object that has not run yet
InitPass ==
    /\ mi = 1 /\ fi = 0 /\ ii = 0
    /\ Iteration = 0
    /\ again = FALSE
    /\ changed = 1
    /\ Changed = TRUE
    /\ fnChanged = FALSE
    /\ sweeps = 0
    /\ runCount = [f \in Functions |-> 0]
    /\ Callees = EmptyMap
    /\ Callers = EmptyMap
    /\ calleeByType = EmptyMap
    /\ AddressTakenFuncs = {}
    /\ reachable = {}
    /\ unvisited = {}
    /\ unresolvedFPts = {}
    /\ typeShortcuts = EmptyMap
    /\ typeShortcutsObj = {}
    /\ retStructs = EmptyMap
    /\ argStructs = EmptyMap
    /\ globalStructs = EmptyMap
    /\ fnValueNodes = {}
    /\ freshCount = 0
    /\ lastCall = NoCall
    /\ ptsAtEntry = EmptyMap

InitRun(ms) ==
    /\ modules = ms
    /\ phase = "init"
    /\ funcPtsGraph = InitPtsGraph(ms)
    /\ objSize = InitObjSize(ms)
    /\ InitPass

\* an input file: whether parseIRFile returns a module, and the module
ParsedFile(M) == [parses |-> TRUE, module |-> M]
BrokenFile(M) == [parses |-> FALSE, module |-> M]

\* main is past its loading loop, every file of the command line parsed
LoadedFrom(ms) ==
    /\ InputFilenames = [i \in 1..Len(ms) |-> ParsedFile(ms[i])]
    /\ fileIdx = Len(ms) + 1
    /\ exitCode = -1
    /\ OS = {}

NoTypes == T1 = VoidTy /\ T2 = VoidTy /\ sameCtx = TRUE /\ compat = <<>>

Init ==
    /\ IR = Fn
    /\ llvmMajor \in LLVMVersions
    /\ \E p \in 1..Len(Programs) : \E ms \in ModuleLists(Programs[p]) :
            InitRun(ms) /\ LoadedFrom(ms)
    /\ NoTypes

Next ==
    \/ DoInitialization
    \/ InitSweepEnd
    \/ ModulePassBegin
    \/ EnterFunction
    \/ StepRet
    \/ StepInlineAsm
    \/ StepDirectCall
    \/ StepIndirectCall
    \/ StepAlloca
    \/ StepLoad
    \/ StepStore
    \/ StepGEP
    \/ StepBitCast
    \/ StepPHI
    \/ StepSelect
    \/ StepSkipped
    \/ StepUnhandled
    \/ LeaveFunction
    \/ ModulePassEnd
    \/ SweepEnd
    \/ DoFinalization
    \/ FinalSweepEnd

Spec == Init /\ [][Next]_vars

\* run() is one sequential loop nest: a step that can be taken is taken
FairSpec == Init /\ [][Next]_vars /\ WF_vars(Next)

\* reading a map of sets: an absent key reads as the empty set
SetAt(map, key) == IF key \in DOMAIN map THEN map[key] ELSE {}

(***************************************************************************)
(* main: the loading loop, populateNodeFactory, the run of the pass, the   *)
(* dump of the callees and the return.                                     *)
(***************************************************************************)
\* the orders the modules of a program are given in on the command line
ModuleOrders(prog) == {[m \in 1..Len(prog) |-> prog[o[m]]] : o \in Perms([m \in 1..Len(prog) |-> m])}

InsertAt(seq, k, x) == SubSeq(seq, 1, k) \o <<x>> \o SubSeq(seq, k + 1, Len(seq))

\* a file that does not parse: the truncated bitcode of a module of one function
BrokenInput == BrokenFile(<<"t1">>)

\* the command lines: the files of a program, all parsing, or with one
\* broken file at any position
CommandLines(prog) ==
    UNION {{[i \in 1..Len(ms) |-> ParsedFile(ms[i])]}
           \cup {InsertAt([i \in 1..Len(ms) |-> ParsedFile(ms[i])], k, BrokenInput) :
                    k \in 0..Len(ms)} : ms \in ModuleOrders(prog)}

InitMain ==
    /\ IR = Fn
    /\ llvmMajor \in LLVMVersions
    /\ \E p \in 1..Len(Programs) : InputFilenames \in CommandLines(Programs[p])
    /\ fileIdx = 1
    /\ exitCode = -1
    /\ OS = {}
    /\ modules = << >>
    /\ phase = "load"
    /\ funcPtsGraph = EmptyMap
    /\ objSize = EmptyMap
    /\ InitPass
    /\ NoTypes

\* parseIRFile, and Modules.push_back only after the test of M == NULL
LoadModuleAlways(ms, file) == Append(ms, file.module)
LoadModule(ms, file) == IF file.parses THEN Append(ms, file.module) ELSE ms

\* one iteration of the loading loop
LoadFile ==
    /\ phase = "load"
    /\ fileIdx <= Len(InputFilenames)
    /\ modules' = LoadModule(modules, InputFilenames[fileIdx])
    /\ fileIdx' = fileIdx + 1
    /\ UNCHANGED << llvmMajor, phase, mi, fi, ii, Iteration, again, changed, Changed,
                    fnChanged, sweeps, runCount, funcPtsGraph, Callees, Callers,
                    calleeByType, AddressTakenFuncs, reachable, unvisited,
                    unresolvedFPts, typeShortcuts, typeShortcutsObj, retStructs,
                    argStructs, globalStructs, fnValueNodes, objSize, freshCount,
                    lastCall, T1, T2, sameCtx, compat, InputFilenames, exitCode, OS, IR, ptsAtEntry >>

\* after the loop: populateNodeFactory, then the pass is constructed and run
PopulateNodeFactory ==
    /\ phase = "load"
    /\ fileIdx > Len(InputFilenames)
    /\ funcPtsGraph' = InitPtsGraph(modules)
    /\ objSize' = InitObjSize(modules)
    /\ phase' = "init"
    /\ UNCHANGED << modules, llvmMajor, mi, fi, ii, Iteration, again, changed, Changed,
                    fnChanged, sweeps, runCount, Callees, Callers, calleeByType,
                    AddressTakenFuncs, reachable, unvisited, unresolvedFPts,
                    typeShortcuts, typeShortcutsObj, retStructs, argStructs,
                    globalStructs, fnValueNodes, freshCount, lastCall, T1, T2,
                    sameCtx, compat, InputFilenames, fileIdx, exitCode, OS, IR, ptsAtEntry >>

\* the instruction a key of Callees stands for, and the function it is in
CallInstAt(cs) == CHOOSE I \in AllInsts : IsCall(I) /\ I.id = cs
CallerOf(cs) ==
    CHOOSE F \in Functions : \E i \in 1..Len(Body(F)) : IsCall(Body(F)[i]) /\ Body(F)[i].id = cs

\* if (CI->isInlineAsm() || CI->getCalledFunction()) continue;
DumpsSite(I) == ~I.asm /\ I.callee = ""

\* one record of the output: a callee of a site, an "!!EMPTY" site with its
\* caller, or the "TypeMatch:" list that follows an "!!EMPTY" record
Record(kind, cs, fns) == [kind |-> kind, cs |-> cs, fns |-> fns]

\* first loop: one record per callee of every dumped site
CalleeRecords(callees) ==
    UNION {{Record("callee", cs, {F}) : F \in callees[cs]} :
              cs \in {c \in DOMAIN callees : DumpsSite(CallInstAt(c))}}

\* second loop: the sites that get an "!!EMPTY" record
ReportsEmpty(cs, callees, reach) ==
    DumpsSite(CallInstAt(cs)) /\ CallerOf(cs) \in reach /\ callees[cs] = {}

EmptyRecords(callees, byType, reach) ==
    UNION {{Record("empty", cs, {CallerOf(cs)})}
           \cup (IF SetAt(byType, cs) # {}
                    THEN {Record("typematch", cs, byType[cs])} ELSE {}) :
              cs \in {c \in DOMAIN callees : ReportsEmpty(c, callees, reach)}}

\* auto &tv = calleeByType[CI] makes CI a key of calleeByType
DumpCallees ==
    /\ phase = "done"
    /\ OS' = CalleeRecords(Callees) \cup EmptyRecords(Callees, calleeByType, reachable)
    /\ calleeByType' =
          [cs \in DOMAIN calleeByType
                  \cup {c \in DOMAIN Callees : ReportsEmpty(c, Callees, reachable)} |->
              SetAt(calleeByType, cs)]
    /\ phase' = "dumped"
    /\ UNCHANGED << modules, llvmMajor, mi, fi, ii, Iteration, again, changed, Changed,
                    fnChanged, sweeps, runCount, funcPtsGraph, Callees, Callers,
                    AddressTakenFuncs, reachable, unvisited, unresolvedFPts,
                    typeShortcuts, typeShortcutsObj, retStructs, argStructs,
                    globalStructs, fnValueNodes, objSize, freshCount, lastCall,
                    T1, T2, sameCtx, compat, InputFilenames, fileIdx, exitCode, IR, ptsAtEntry >>

\* return 0;
ReturnFromMain ==
    /\ phase = "dumped"
    /\ exitCode' = 0
    /\ phase' = "exit"
    /\ UNCHANGED << modules, llvmMajor, mi, fi, ii, Iteration, again, changed, Changed,
                    fnChanged, sweeps, runCount, funcPtsGraph, Callees, Callers,
                    calleeByType, AddressTakenFuncs, reachable, unvisited,
                    unresolvedFPts, typeShortcuts, typeShortcutsObj, retStructs,
                    argStructs, globalStructs, fnValueNodes, objSize, freshCount,
                    lastCall, T1, T2, sameCtx, compat, InputFilenames, fileIdx, OS, IR, ptsAtEntry >>

NextMain ==
    \/ LoadFile
    \/ PopulateNodeFactory
    \/ DoInitialization
    \/ InitSweepEnd
    \/ ModulePassBegin
    \/ EnterFunction
    \/ StepRet
    \/ StepInlineAsm
    \/ StepDirectCall
    \/ StepIndirectCall
    \/ StepAlloca
    \/ StepLoad
    \/ StepStore
    \/ StepGEP
    \/ StepBitCast
    \/ StepPHI
    \/ StepSelect
    \/ StepSkipped
    \/ StepUnhandled
    \/ LeaveFunction
    \/ ModulePassEnd
    \/ SweepEnd
    \/ DoFinalization
    \/ FinalSweepEnd
    \/ DumpCallees
    \/ ReturnFromMain

SpecMain == InitMain /\ [][NextMain]_vars

(***************************************************************************)
(* isCompatibleType on its own: the types are the input, one step applies  *)
(* the function to (T1,T2), (T2,T1) and (T1,T1).                           *)
(***************************************************************************)
BaseTypes ==
    {VoidTy, I1, I8, I32, FloatTy, DoubleTy, LabelTy,
     NamedStructTy("S"), NamedStructTy("T")}

\* the types LLVM lets be pointed to, and be elements or fields
Pointable(Ts) == {t \in Ts : t.k \notin {"void", "other"}}
Sized(Ts) == {t \in Ts : t.k \notin {"void", "other", "fn"}}

\* pointers (address spaces 0 and 1), arrays, literal structs of no or one
\* field, and function types of no or one parameter, variadic or not
DerivedTypes(Ts) ==
    {PtrTy(t, as) : t \in Pointable(Ts), as \in {0, 1}}
    \cup {ArrayTy(t) : t \in Sized(Ts)}
    \cup {LitStructTy(<<>>)}
    \cup {LitStructTy(<<t>>) : t \in Sized(Ts)}
    \cup {FnTy(ret, ps, va) :
            ret \in Ts \cap {VoidTy, I32},
            ps \in {<<>>} \cup {<<t>> : t \in Ts \cap {I8, I32}},
            va \in BOOLEAN}

RECURSIVE TypeUniverse(_)
TypeUniverse(d) ==
    IF d = 0 THEN BaseTypes
    ELSE BaseTypes \cup DerivedTypes(TypeUniverse(d - 1))

InitCompat ==
    /\ IR = Fn
    /\ llvmMajor \in LLVMVersions
    /\ InitRun(<< >>)
    /\ LoadedFrom(<< >>)
    /\ T1 \in TypeUniverse(MaxTypeDepth)
    /\ T2 \in TypeUniverse(MaxTypeDepth)
    /\ sameCtx \in BOOLEAN
    /\ compat = <<>>

\* T1 compared with itself is one Type pointer compared with itself
ApplyCompat ==
    /\ compat = <<>>
    /\ compat' = << isCompatibleType(T1, T2, sameCtx, llvmMajor),
                    isCompatibleType(T2, T1, sameCtx, llvmMajor),
                    isCompatibleType(T1, T1, TRUE, llvmMajor) >>
    /\ UNCHANGED << modules, llvmMajor, phase, mi, fi, ii, Iteration, again, changed,
                    Changed, fnChanged, sweeps, runCount, funcPtsGraph, Callees,
                    Callers, calleeByType, AddressTakenFuncs, reachable, unvisited,
                    unresolvedFPts, typeShortcuts, typeShortcutsObj, retStructs,
                    argStructs, globalStructs, fnValueNodes, objSize, freshCount,
                    lastCall, T1, T2, sameCtx, InputFilenames,
                   fileIdx, exitCode, OS, IR, ptsAtEntry >>

NextCompat == ApplyCompat

SpecCompat == InitCompat /\ [][NextCompat]_vars

(***************************************************************************)
(* One more sweep of the transfer functions over a state of the pass, as a *)
(* function of that state: the switch of runOnFunction, the instructions   *)
(* of a function in order, the functions of a module in order.             *)
(***************************************************************************)
TransferOf(r, F, I) ==
    IF I.op = "ret" THEN DoRet(r, F, I)
    ELSE IF IsCall(I) THEN
        IF I.asm THEN r
        ELSE IF I.callee # "" THEN DoDirectCall(r, F, I)
        ELSE DoIndirectCall(r, F, I)
    ELSE IF I.op = "load" THEN DoLoad(r, F, I)
    ELSE IF I.op = "store" THEN DoStore(r, F, I)
    ELSE IF I.op = "gep" THEN DoGEP(r, F, I)
    ELSE IF I.op = "bitcast" THEN DoBitCast(r, F, I)
    ELSE IF I.op = "phi" THEN DoPHI(r, F, I)
    ELSE IF I.op = "select" THEN DoSelect(r, F, I)
    ELSE r

RECURSIVE RunInsts(_, _, _)
RunInsts(r, F, i) ==
    IF r.abort \/ i > Len(Body(F)) THEN r
    ELSE RunInsts(TransferOf(r, F, Body(F)[i]), F, i + 1)

RECURSIVE RunFunctions(_, _, _)
RunFunctions(r, M, j) ==
    IF j > Len(M) THEN r
    ELSE IF IsProcessed(M[j]) THEN RunFunctions(RunInsts(r, M[j], 1), M, j + 1)
    ELSE RunFunctions(r, M, j + 1)

RECURSIVE RunModules(_, _)
RunModules(r, m) ==
    IF m > Len(modules) THEN r
    ELSE RunModules(RunFunctions(r, modules[m], 1), m + 1)


\* r adds no element to a points-to set, a Callees set or reachable
AddsNothing(r) ==
    /\ \A n \in DOMAIN r.pg : Pts(r.pg, n) \subseteq Pts(funcPtsGraph, n)
    /\ \A cs \in DOMAIN r.callees : r.callees[cs] \subseteq SetAt(Callees, cs)
    /\ r.reach \subseteq reachable

Closed == AddsNothing(RunModules(Cur, 1))

\* the fixpoint loop of run() has been left
FixpointStopped == phase \in {"final", "done"}

\* the functions runOnFunction is applied to in a sweep
ProcessedFunctions == {F \in Loaded(modules) : IsProcessed(F)}

\* the call and invoke instructions of F that are not inline asm
CallSitesOf(F) ==
    {Body(F)[i] : i \in {j \in 1..Len(Body(F)) : IsCall(Body(F)[j]) /\ ~Body(F)[j].asm}}

\* "Reachable = Entries \cup {g : CS in some f in Reachable, g in Callees[CS]}"
Entries == {F \in Loaded(modules) : isEntry(F)}
RECURSIVE ReachableFrom(_)
ReachableFrom(R) ==
    IF UNION {UNION {SetAt(Callees, I.id) : I \in CallSitesOf(F)} : F \in R} \subseteq R
        THEN R
        ELSE ReachableFrom(R \cup UNION {UNION {SetAt(Callees, I.id) :
                                                    I \in CallSitesOf(F)} : F \in R})

\* the functions some object of pts(valueNode(operand)) resolves back to
BackResolved(operand) ==
    {FunctionForNode(idx) :
        idx \in {o \in Pts(funcPtsGraph, VN(operand)) : ~isSpecialNode(o)}} \ {""}

(***************************************************************************)
(* Properties.                                                             *)
(***************************************************************************)
\* C1: every step leaves every points-to set a superset of its previous
\* value; no key and no element is ever removed.
PtsMonotone ==
    [][\A n \in DOMAIN funcPtsGraph :
            /\ n \in DOMAIN funcPtsGraph'
            /\ funcPtsGraph[n] \subseteq funcPtsGraph'[n]]_vars

\* the stack slot of main3, stored to by two instructions, holds both values
PtsGrewTwice ==
    /\ phase = "done"
    /\ Cardinality(Pts(funcPtsGraph, getObjectNodeFor("main3.a"))) >= 2

\* C2: under the sequential execution of run(), every run reaches the end
\* of run(), with the last fixpoint sweep having reported no change.
RunTerminates == <>(phase = "done" /\ changed = 0)

\* a finished run whose first fixpoint sweep reported a change
FinishedAfterChange == phase = "done" /\ sweeps = 2

SecondSweepRuns ==
    (phase = "done" /\ sweeps >= 2) => \A F \in ProcessedFunctions : runCount[F] >= 2

\* C5: at the end of the run every direct call or invoke site that is not
\* inline asm, in a reachable function with a body, has the definition of
\* its called function among its callees.
DirectCallsComplete ==
    phase = "done" =>
        \A F \in reachable \cap ProcessedFunctions :
            \A I \in {J \in CallSitesOf(F) : J.callee # ""} :
                getFuncDef(I.callee) \in SetAt(Callees, I.id)

\* a finished run with a direct call resolved through the GUID to a
\* definition in another module
DirectCallAcrossModules ==
    /\ phase = "done"
    /\ "mainA" \in reachable
    /\ "fooDef" \in SetAt(Callees, "mainA.p")

\* C6: at the end of the run reachable is the least set that holds the
\* entry functions and the callees of the call sites of its members.
ReachableIsLeast == phase = "done" => reachable = ReachableFrom(Entries)

\* C7: at the end of the run the indirect call in indirect_call, whose
\* operand is the parameter main passes t1 or t2 for, has exactly t1 and t2
\* as callees, and both are reachable, whatever the order of the functions.
ArgumentCallResolved ==
    (phase = "done" /\ "main1" \in Loaded(modules)) =>
        /\ SetAt(Callees, "icall.r") = {"t1", "t2"}
        /\ {"t1", "t2"} \subseteq reachable

\* C8: every callee recorded for an indirect call site resolves back from
\* an object, not a special node, in the points-to set of the called
\* operand (the type-based fallback records its candidates elsewhere).
IndirectCalleesSound ==
    \A F \in Loaded(modules) :
        \A I \in {J \in CallSitesOf(F) : J.callee = ""} :
            SetAt(Callees, I.id) \subseteq BackResolved(I.co)

\* an indirect call site with two recorded callees
IndirectCallResolved ==
    \E F \in Loaded(modules) :
        \E I \in {J \in CallSitesOf(F) : J.callee = ""} :
            Cardinality(SetAt(Callees, I.id)) >= 2

\* C9: once the initialization loop has been left, every function whose
\* address is taken is in AddressTakenFuncs and its value node points to
\* its object node.
AddressTakenSeeded ==
    phase # "init" =>
        \A m \in 1..Len(modules) :
            \A F \in FunctionsOf(modules[m]) :
                hasAddressTaken(F, modules[m]) =>
                    /\ F \in AddressTakenFuncs
                    /\ getObjectNodeFor(F)
                         \in Pts(funcPtsGraph, getValueNodeFor(F, fnValueNodes))

\* the fixpoint loop has begun on a program with two address-taken functions
TwoAddressTaken == phase = "pass" /\ Cardinality(AddressTakenFuncs) >= 2

\* C10: isCompatibleType gives the same answer for (T1,T2) and (T2,T1),
\* and is true for (T1,T1).
CompatSymmetricReflexive ==
    compat # <<>> => (compat[1] = compat[2] /\ compat[3])

\* C11: in every state of the run, every function in unvisited is in
\* reachable.
UnvisitedInReachable == unvisited \subseteq reachable

\* during the fixpoint loop, a function found through a call waits in
\* unvisited
CalleeWaitsUnvisited == phase = "pass" /\ \E F \in unvisited : ~isEntry(F)

\* C12: in every state, no call site with a statically named callee is a
\* key of calleeByType.
DirectNeverByType ==
    \A F \in Loaded(modules) :
        \A I \in {J \in CallSitesOf(F) : J.callee # ""} :
            I.id \notin DOMAIN calleeByType

\* C13: at the end of the run, for every function F and every call or
\* invoke site that is not inline asm, the site is in Callers[F] exactly
\* when F is in Callees of the site.
CallersInverseOfCallees ==
    phase = "done" =>
        \A F \in Functions :
            \A G \in Loaded(modules) :
                \A I \in CallSitesOf(G) :
                    (I.id \in SetAt(Callers, F)) <=> (F \in SetAt(Callees, I.id))

\* the step about to be taken is a direct call or invoke (not inline asm)
AtDirectCall == AtInst /\ IsCall(CurI) /\ ~CurI.asm /\ CurI.callee # ""

\* CF has a body, is no intrinsic and not variadic, and CS passes a number
\* of arguments that differs from CF's parameter count
MismatchedCall(CS, CF) ==
    /\ hasBody(CF) /\ ~IR[CF].intrinsic /\ ~IR[CF].va
    /\ Len(CS.ops) # Len(IR[CF].args)

\* C16: a direct call whose argument count differs from the parameter count
\* of its non-variadic callee changes no points-to set and no object,
\* handleCall returns false, and the pass goes on to the next instruction.
ArityMismatchSkipped ==
    [][(AtDirectCall /\ MismatchedCall(CurI, getFuncDef(CurI.callee))) =>
            /\ funcPtsGraph' = funcPtsGraph
            /\ objSize' = objSize
            /\ lastCall'.cs = CurI.id /\ ~lastCall'.ret
            /\ phase' = phase
            /\ ii' = ii + 1]_vars

\* the call of main with one argument to foo(), which takes none and whose
\* return set is not empty, has been processed and bound nothing
ArityMismatchSeen ==
    /\ lastCall.cs = "mainA.q" /\ ~lastCall.ret
    /\ Pts(funcPtsGraph, getReturnNodeFor(lastCall.cf)) # {}
    /\ Pts(funcPtsGraph, VN("mainA.q")) = {}

\* C17: a GetElementPtr with a negative byte offset changes no points-to
\* set and resizes no object.
NegativeGepNoEffect ==
    [][(AtInst /\ CurI.op = "gep" /\ CurI.off < 0) =>
            /\ funcPtsGraph' = funcPtsGraph
            /\ objSize' = objSize]_vars

\* n lies in the object group of o, with the sizes given
InObjectOf(n, o, sizes) ==
    \E g \in GroupOf(o, sizes, typeShortcuts) : g[1] <= n /\ n < g[1] + g[2]

\* C18: every index a GetElementPtr with a non-negative offset adds to the
\* points-to set of its result is a special node of the source set or lies
\* inside the object of a non-special element of the source set.
GepStaysInObject ==
    [][(AtInst /\ CurI.op = "gep" /\ CurI.off >= 0) =>
            \A n \in Pts(funcPtsGraph', VN(CurI.id)) \ Pts(funcPtsGraph, VN(CurI.id)) :
                \/ isSpecialNode(n) /\ n \in Pts(funcPtsGraph, VN(CurI.ops[1]))
                \/ \E o \in Pts(funcPtsGraph, VN(CurI.ops[1])) :
                       ~isSpecialNode(o) /\ InObjectOf(n, o, objSize')]_vars

\* handleCall(CS, CF) reaches the return binding
BindsReturn(CS, CF) ==
    /\ hasBody(CF) /\ ~IR[CF].intrinsic /\ IR[CF].retTy # VoidTy
    /\ (IR[CF].va \/ Len(CS.ops) = Len(IR[CF].args))

\* C19: a direct call that reaches the return binding leaves, for every
\* element o of the callee's return set, o itself in the points-to set of
\* the call, or, when o is an opaque heap object and the callee's name contains
\* "alloc", an opaque heap object created by this call.
ReturnBindingComplete ==
    [][(AtDirectCall /\ BindsReturn(CurI, getFuncDef(CurI.callee))) =>
            \A o \in Pts(funcPtsGraph, getReturnNodeFor(getFuncDef(CurI.callee))) :
                IF IsAllocatorReturn(Cur, getFuncDef(CurI.callee), o)
                    THEN \E k \in freshCount..(freshCount' - 1) :
                            FreshBase(k) \in Pts(funcPtsGraph', VN(CurI.id))
                    ELSE o \in Pts(funcPtsGraph', VN(CurI.id))]_vars

\* C20: once the type shortcuts exist, for every record type with a
\* shortcut object the return node of every function returning a pointer to
\* it and the value node of every formal argument of that pointer type
\* point to the object and are in typeShortcutsObj.
ShortcutBound ==
    \A st \in DOMAIN typeShortcuts :
        \A F \in Loaded(modules) :
            /\ RecordOf(IR[F].retTy) = st =>
                   /\ typeShortcuts[st] \in Pts(funcPtsGraph, getReturnNodeFor(F))
                   /\ getReturnNodeFor(F) \in typeShortcutsObj
            /\ \A k \in 1..Len(IR[F].args) :
                   RecordOf(IR[F].argTys[k]) = st =>
                       /\ typeShortcuts[st] \in Pts(funcPtsGraph, VN(IR[F].args[k]))
                       /\ VN(IR[F].args[k]) \in typeShortcutsObj
(***************************************************************************)
(* main: input files that fail to parse, and the dump of the callees.      *)
(***************************************************************************)
ParsesOk(file) == file.parses

\* the modules of the files that parse, in the order of the files
ModulesOf(files) ==
    [i \in 1..Len(SelectSeq(files, ParsesOk)) |-> SelectSeq(files, ParsesOk)[i].module]

\* the functions a list of files registers
RegisteredBy(files) == Loaded(ModulesOf(files))

\* C14: a file that fails to parse adds no module and registers no function,
\* every other file is loaded in input order, the analysis runs on the
\* loaded modules, and main returns 0.
ParseFailureSkipped ==
    /\ modules = ModulesOf(SubSeq(InputFilenames, 1, fileIdx - 1))
    /\ Loaded(modules) = RegisteredBy(SubSeq(InputFilenames, 1, fileIdx - 1))
    /\ exitCode \in {-1, 0}
    /\ phase = "exit" =>
          /\ exitCode = 0
          /\ fileIdx = Len(InputFilenames) + 1
          /\ \A F \in ProcessedFunctions : runCount[F] >= 1

\* main has returned after a run whose second of three files did not parse
ParseFailureSurvived ==
    /\ phase = "exit"
    /\ Len(InputFilenames) = 3
    /\ ~InputFilenames[2].parses
    /\ Len(modules) = 2
    /\ "t1" \in Loaded(modules)
    /\ runCount["t1"] >= 1

\* C15: after the run, a call site has an "!!EMPTY" record exactly when it
\* is indirect, not inline asm, and its callee set is empty; the record is
\* followed by the type-based candidates when there are any.
EmptySitesReported ==
    phase \in {"dumped", "exit"} =>
        \A F \in Loaded(modules) : \A I \in CallSitesOf(F) :
            /\ (I.callee = "" /\ SetAt(Callees, I.id) = {})
                  <=> Record("empty", I.id, {F}) \in OS
            /\ (Record("empty", I.id, {F}) \in OS /\ SetAt(calleeByType, I.id) # {})
                  => Record("typematch", I.id, calleeByType[I.id]) \in OS

(***************************************************************************)
(* handleCall's return value, and the Invalid index.                       *)
(***************************************************************************)
\* the one function handleCall is applied to by the call at the cursor: the
\* callee of a direct call, or the function of the only object the called
\* operand points to ("" when there is not exactly one such call)
OnlyCallee(I) ==
    IF I.callee # "" THEN getFuncDef(I.callee)
    ELSE IF Cardinality(Pts(funcPtsGraph, VN(I.co))) = 1
        THEN FunctionForNode(The(Pts(funcPtsGraph, VN(I.co))))
        ELSE ""

AtOneCall == AtInst /\ IsCall(CurI) /\ ~CurI.asm /\ OnlyCallee(CurI) # ""

\* some points-to set has an element after the step that it had not before
SomePtsGrew ==
    \E n \in DOMAIN funcPtsGraph' : ~(funcPtsGraph'[n] \subseteq Pts(funcPtsGraph, n))

\* C21: handleCall(CS, CF) returns true exactly when the call added an
\* element to some points-to set, and false for an intrinsic callee, a
\* callee without a body and an arity mismatch.
HandleCallFlagExact ==
    [][(AtOneCall /\ ii' = ii + 1) =>
          /\ lastCall' = [cs |-> CurI.id, cf |-> OnlyCallee(CurI), ret |-> SomePtsGrew]
          /\ (\/ IR[OnlyCallee(CurI)].intrinsic
              \/ ~hasBody(OnlyCallee(CurI))
              \/ ArityMismatch(CurI, OnlyCallee(CurI))) => ~lastCall'.ret]_vars

\* a call of a function with a body has just returned true
HandleCallReturnedTrue ==
    /\ lastCall.cs # ""
    /\ lastCall.ret
    /\ hasBody(lastCall.cf)
    /\ \E n \in DOMAIN funcPtsGraph : funcPtsGraph[n] # {}

\* C22: the Invalid index is never a key of the points-to graph and never an
\* element of a points-to set.
InvalidNeverANode ==
    /\ InvalidIndex \notin DOMAIN funcPtsGraph
    /\ \A n \in DOMAIN funcPtsGraph : InvalidIndex \notin funcPtsGraph[n]

(***************************************************************************)
(* unresolvedFPts and unvisited at the end of doModulePass and of the run. *)
(***************************************************************************)
\* doModulePass has just returned to run(), or run() is past its fixpoint loop
AfterModulePass ==
    \/ phase = "pass" /\ fi = 0 /\ mi > 1
    \/ phase \in {"final", "done"}

\* n is the value node of the called operand of an indirect call site
IsCalleeOperand(n) ==
    \E F \in Loaded(modules) : \E I \in CallSitesOf(F) : I.callee = "" /\ VN(I.co) = n

\* C23: at the end of every doModulePass and at the end of the run, every
\* node in unresolvedFPts is the called operand of an indirect call site and
\* has an empty points-to set.
UnresolvedOnlyEmpty ==
    AfterModulePass =>
        \A n \in unresolvedFPts : IsCalleeOperand(n) /\ Pts(funcPtsGraph, n) = {}

\* C24: every function with a body that enters unvisited is processed before
\* the run ends: at the end of the run unvisited holds no defined function.
UnvisitedDrained == phase = "done" => \A F \in unvisited : ~hasBody(F)

(***************************************************************************)
(* GEP on an opaque heap object, and the type-based candidates.            *)
(***************************************************************************)
\* the cursor is at a GEP with a record as source element type and an
\* offset that is not negative
AtRecordGep ==
    /\ AtInst /\ CurI.op = "gep"
    /\ getElementTy(CurI.elty).k = "struct"
    /\ CurI.off >= 0

\* the opaque heap objects the GEP's pointer operand points to that are
\* smaller than the record
SmallOpaqueObjects(I) ==
    {o \in Pts(funcPtsGraph, VN(I.ops[1])) :
        /\ ~isSpecialNode(o)
        /\ isOpaqueObject(o, objSize)
        /\ getObjectSize(o, objSize, typeShortcuts)
              < ExpandedSize[getStructInfo(getElementTy(I.elty))]}

\* C25: a GEP with a record of expanded size S as source element type, on an
\* opaque heap object o of smaller size, resizes o in place to S, and for a
\* field index k with getObjectOffset(o) + k < S inserts o + k.
ResizeThenIndex ==
    [][(AtRecordGep /\ ii' = ii + 1) =>
          \A o \in SmallOpaqueObjects(CurI) :
              /\ o \in DOMAIN objSize'
              /\ objSize'[o] = ExpandedSize[getStructInfo(getElementTy(CurI.elty))]
              /\ (getObjectOffset(o, objSize, typeShortcuts) + CurI.field
                     < ExpandedSize[getStructInfo(getElementTy(CurI.elty))])
                    => o + CurI.field \in Pts(funcPtsGraph', VN(CurI.id))]_vars

\* the call instruction behind a key of calleeByType is in the same module,
\* hence the same LLVMContext, as F
SameModule(cs, F) == ModuleOf(F) = ModuleOf(CallerOf(cs))

\* C26: every function findCalleesByType adds for a call site is address
\* taken, is no intrinsic, has a return type compatible with the type of the
\* call, has as many parameters as the call has arguments unless it is
\* variadic, and has parameter types compatible with the actual arguments.
CandidatesPassFilters ==
    \A cs \in DOMAIN calleeByType : \A F \in calleeByType[cs] :
        /\ F \in AddressTakenFuncs
        /\ ~IR[F].intrinsic
        /\ isCompatibleType(IR[F].retTy, CallInstAt(cs).ty, SameModule(cs, F), llvmMajor)
        /\ IR[F].va \/ Len(IR[F].args) = Len(CallInstAt(cs).ops)
        /\ \A k \in 1..Len(IR[F].args) :
              k <= Len(CallInstAt(cs).ops) =>
                  isCompatibleType(IR[F].argTys[k], ValTy(CallInstAt(cs).ops[k]),
                                   SameModule(cs, F), llvmMajor)

(***************************************************************************)
(* Nodes bound to a type shortcut.                                         *)
(***************************************************************************)
\* the objects that stand for a record type
ShortcutObjects(ts) == {ts[st] : st \in DOMAIN ts}

\* C27: once a node n is recorded in typeShortcutsObj no transfer function
\* adds a further element to pts(n), the Load that records n included:
\* pts(n) stays what it was when n was recorded, plus the shortcut object.
ShortcutNodesFrozen ==
    [][\A n \in typeShortcutsObj' :
          Pts(funcPtsGraph', n) \subseteq
              Pts(funcPtsGraph, n)
                  \cup (IF n \in typeShortcutsObj THEN {}
                        ELSE ShortcutObjects(typeShortcuts'))]_vars

(***************************************************************************)
(* The transfer functions of Load and Store, and the instructions without  *)
(* a transfer function.                                                    *)
(***************************************************************************)
\* the cursor is at a Load whose result is not bound to a type shortcut
AtPlainLoad ==
    /\ AtInst /\ CurI.op = "load"
    /\ VN(CurI.id) \notin typeShortcutsObj

\* every node that is a key before or after the step
NodesAcross == DOMAIN funcPtsGraph \cup DOMAIN funcPtsGraph'

\* C28: after v = load p with valueNode(v) no shortcut target, pts(v)
\* contains pts(o) for every o in pts(p); when pts(p) is exactly {NullObject}
\* the null object is added to pts(v) and nothing else is; no set other than
\* pts(v) changes.
LoadTransfer ==
    [][(AtPlainLoad /\ ii' = ii + 1) =>
          /\ \A o \in Pts(funcPtsGraph, VN(CurI.ops[1])) :
                \/ Pts(funcPtsGraph, VN(CurI.ops[1])) = {NullObject}
                \/ Pts(funcPtsGraph, o) \subseteq Pts(funcPtsGraph', VN(CurI.id))
          /\ Pts(funcPtsGraph, VN(CurI.ops[1])) = {NullObject} =>
                /\ NullObject \in Pts(funcPtsGraph', VN(CurI.id))
                /\ Pts(funcPtsGraph', VN(CurI.id)) \subseteq
                       Pts(funcPtsGraph, VN(CurI.id)) \cup {NullObject}
                           \cup ShortcutObjects(typeShortcuts)
          /\ \A n \in NodesAcross \ {VN(CurI.id)} :
                Pts(funcPtsGraph', n) = Pts(funcPtsGraph, n)]_vars

\* main3 has loaded through its slot and through the null pointer
LoadedThroughNull ==
    /\ Pts(funcPtsGraph, VN("main3.n")) = {NullObject}
    /\ Pts(funcPtsGraph, VN("main3.l")) # {}
    /\ Pts(funcPtsGraph, VN("main3.l")) \subseteq
           Pts(funcPtsGraph, getObjectNodeFor("main3.a"))

\* what a handler may change besides the points-to graph
HandlerFrame ==
    << Callees, reachable, unvisited, unresolvedFPts, calleeByType,
       typeShortcutsObj, objSize >>

\* C29: after store v, p with v a pointer, pts(o) contains pts(v) for every
\* o in pts(p) that is not special; the sets of the special nodes and of
\* every node outside pts(p) are unchanged; a store of a value that is no
\* pointer changes nothing.
StoreTransfer ==
    [][(AtInst /\ CurI.op = "store" /\ ii' = ii + 1) =>
          IF ValTy(CurI.ops[1]).k = "ptr"
              THEN /\ \A o \in Pts(funcPtsGraph, VN(CurI.ops[2])) :
                          isSpecialNode(o)
                              \/ Pts(funcPtsGraph, VN(CurI.ops[1]))
                                     \subseteq Pts(funcPtsGraph', o)
                   /\ \A n \in NodesAcross :
                          (isSpecialNode(n) \/ n \notin Pts(funcPtsGraph, VN(CurI.ops[2])))
                              => Pts(funcPtsGraph', n) = Pts(funcPtsGraph, n)
              ELSE /\ funcPtsGraph' = funcPtsGraph
                   /\ fnChanged' = fnChanged
                   /\ UNCHANGED HandlerFrame]_vars

\* main3 has stored t1 and t2 into its slot, an integer into it, and t1
\* through the null pointer, and is past these stores
StoredThroughNull ==
    /\ {getObjectNodeFor("t1"), getObjectNodeFor("t2")}
           \subseteq Pts(funcPtsGraph, getObjectNodeFor("main3.a"))
    /\ Pts(funcPtsGraph, VN("main3.n")) # {}
    /\ Pts(funcPtsGraph, NullObject) = {}

\* the instruction has no transfer function: it is skipped before the
\* switch, is an alloca, or falls to the default case
HasNoTransfer(I) ==
    \/ I.op \in SkippedOps
    \/ I.op = "alloca"
    \/ I.op \notin HandledOps

\* C30: processing a branch, switch, unreachable, binary operator, sext,
\* zext, trunc, icmp, fcmp, alloca or an opcode the switch does not handle
\* leaves the points-to graph, Callees, reachable, unvisited and
\* unresolvedFPts unchanged and does not set the change flag.
NoTransferNoEffect ==
    [][(AtInst /\ HasNoTransfer(CurI) /\ ii' = ii + 1) =>
          /\ UNCHANGED << funcPtsGraph, Callees, reachable, unvisited, unresolvedFPts >>
          /\ fnChanged' = fnChanged]_vars

\* main2 is past its alloca, its fence and its branch
PassedNoTransfer ==
    /\ AtInst /\ CurF = "main2"
    /\ \A op \in {"alloca", "fence", "br"} :
           \E j \in 1..(ii - 1) : Body(CurF)[j].op = op

(***************************************************************************)
(* Inline-asm call sites.                                                  *)
(***************************************************************************)
\* the call sites whose called operand is inline asm
AsmSites == {I.id : I \in {J \in AllInsts : IsCall(J) /\ J.asm}}

\* no map of the analysis and no record of the dump names an inline-asm site
AsmSitesUnseen ==
    /\ AsmSites \cap DOMAIN Callees = {}
    /\ AsmSites \cap DOMAIN calleeByType = {}
    /\ \A F \in DOMAIN Callers : AsmSites \cap Callers[F] = {}
    /\ \A rec \in OS : rec.cs \notin AsmSites

\* C31: no inline-asm call site is ever a key of Callees or of calleeByType
\* or a member of a Callers set, processing one changes no state of the
\* analysis, and dumpCallees writes no record for it.
AsmSitesInvisible ==
    /\ []AsmSitesUnseen
    /\ [][(AtInst /\ IsCall(CurI) /\ CurI.asm /\ ii' = ii + 1) =>
             /\ fnChanged' = fnChanged
             /\ UNCHANGED << funcPtsGraph, Callees, Callers, calleeByType, reachable,
                             unvisited, unresolvedFPts, typeShortcutsObj, objSize,
                             freshCount, lastCall, phase, OS >>]_vars

\* main returns after a run over the module of main2, which holds an
\* inline-asm call next to call sites that are keys of Callees
AsmModuleDumped ==
    /\ phase = "exit"
    /\ \E m \in 1..Len(modules) : InSeq(modules[m], "main2")
    /\ runCount["main2"] > 0
    /\ "main2.d" \in DOMAIN Callees

(***************************************************************************)
(* Calls of variadic functions.                                            *)
(***************************************************************************)
\* the step applies handleCall once, to a variadic function with a body
AtVariadicCall ==
    /\ AtOneCall
    /\ IR[OnlyCallee(CurI)].va
    /\ hasBody(OnlyCallee(CurI))

\* the value nodes of the formal parameters of F
FormalNodes(F) == {VN(IR[F].args[k]) : k \in 1..Len(IR[F].args)}

\* C32: handleCall(CS, CF) with a variadic CF that has a body leaves
\* pts(varargNode(CF)) and the points-to set of every formal of CF unchanged
\* whatever the actuals are; the only set it may change is pts(valueNode(CS)).
VariadicNoArgBinding ==
    [][(AtVariadicCall /\ ii' = ii + 1) =>
          /\ \A n \in FormalNodes(OnlyCallee(CurI)) \cup {getVarargNodeFor(OnlyCallee(CurI))} :
                Pts(funcPtsGraph', n) = Pts(funcPtsGraph, n)
          /\ \A n \in NodesAcross \ {VN(CurI.id)} :
                Pts(funcPtsGraph', n) = Pts(funcPtsGraph, n)]_vars

\* main3 has called the variadic var with two function pointers, and the
\* formal and the vararg node of var have nothing
VariadicCalled ==
    /\ lastCall.cs = "main3.v" /\ lastCall.cf = "var"
    /\ Pts(funcPtsGraph, VN("t1")) # {} /\ Pts(funcPtsGraph, VN("t2")) # {}
    /\ Pts(funcPtsGraph, VN("var.f")) = {}
    /\ Pts(funcPtsGraph, getVarargNodeFor("var")) = {}

(***************************************************************************)
(* The order of the phases of IterativeModulePass::run.                    *)
(***************************************************************************)
\* the phases of run() in their order; "abort" is a failed assertion
PhaseRank(p) ==
    CASE p = "load" -> 0
      [] p = "init" -> 1
      [] p = "pass" -> 2
      [] p = "final" -> 3
      [] p = "done" -> 4
      [] p = "dumped" -> 5
      [] p = "exit" -> 6
      [] OTHER -> 7

\* the init and the finalization loop call their function on module mi
InModuleSweep(p) == p \in {"init", "final"}

\* C33: every module's doInitialization completes before the first
\* doModulePass, every doModulePass completes before the first
\* doFinalization, and doInitialization and doFinalization are invoked on
\* each module exactly once: a phase is left for the next one only with the
\* module cursor past the last module, a sweep of the init or finalization
\* loop starts at the first module, and within it the cursor only advances.
PhaseOrdering ==
    /\ [][phase' # phase =>
             \/ phase' = "abort" /\ phase = "pass"
             \/ /\ PhaseRank(phase') = PhaseRank(phase) + 1
                /\ mi > Len(modules)
                /\ mi' = 1]_vars
    /\ [][(InModuleSweep(phase) /\ phase' = phase) =>
             mi <= Len(modules) /\ mi' = mi + 1]_vars
    /\ [][(phase = "pass" /\ phase' = "final") => fi = 0 /\ changed = 0]_vars

\* a run over two modules is through its finalization
TwoModulesDone ==
    /\ phase = "done"
    /\ Len(modules) = 2
    /\ \A m \in 1..2 : \E F \in FunctionsOf(modules[m]) : runCount[F] > 0
    /\ DOMAIN calleeByType # {}

(***************************************************************************)
(* The value doModulePass returns.                                         *)
(***************************************************************************)
\* a call of doModulePass returns to run(): the module cursor moves on
ModulePassReturns == phase = "pass" /\ mi' = mi + 1

\* some points-to set has an element at the return that it had not when the
\* call began
GrewSinceEntry ==
    \E n \in DOMAIN funcPtsGraph' :
        ~(funcPtsGraph'[n] \subseteq Pts(ptsAtEntry', n))

\* C34: whenever a call of doModulePass adds an element to a points-to set,
\* through a transfer function (a Load from a pointer to the null object
\* alone included) or through the creation of a type shortcut, the call
\* returns true and run() counts the module as changed.
ModulePassFlagComplete ==
    [][(ModulePassReturns /\ GrewSinceEntry) => changed' = changed + 1]_vars

(***************************************************************************)
(* The keys and the elements of the points-to graph.                       *)
(***************************************************************************)
\* C35: every key present in the points-to graph maps to a set that is not
\* empty, so that "the key is absent" and "the points-to set is empty" are
\* the same test.
PresentKeysNonEmpty ==
    \A n \in DOMAIN funcPtsGraph :
        /\ funcPtsGraph[n] # {}
        /\ Found(funcPtsGraph, n) <=> Pts(funcPtsGraph, n) # {}

\* the indirect call sites whose called operand has no key
KeylessCallSites ==
    {I \in AllInsts : IsCall(I) /\ ~I.asm /\ I.callee = ""
                         /\ ~Found(funcPtsGraph, VN(I.co))}

\* a run is through its fixpoint loop with a graph of several keys, and an
\* indirect call of a processed function went to the type-based fallback
\* because its operand has no key
FallbackOnAbsentKey ==
    /\ phase = "done"
    /\ Cardinality(DOMAIN funcPtsGraph) >= 4
    /\ \E I \in KeylessCallSites : VN(I.co) \in unresolvedFPts

\* C36: every element of every points-to set is a special node or an object
\* node, so that the assertion "Function pointer points to non-object!" of
\* an indirect call never fails and Store never writes into the set of a
\* value, return or vararg node.
OnlyObjectsPointedTo ==
    \A n \in DOMAIN funcPtsGraph : \A e \in funcPtsGraph[n] :
        isSpecialNode(e) \/ isObjectNode(e, objSize, typeShortcuts)

====
